---- MODULE Spec2Model ----
(***************************************************************************)
(* OWNGPT backend: the model-container lifecycle manager (ModelHandler),   *)
(* the chat relay (ChatHandler), the readiness probe                       *)
(* (DockerService.WaitForModelReady) and the streaming inference client    *)
(* (OllamaService.SendMessageStream).                                      *)
(*                                                                         *)
(* Strings of the program are sequences of one-character strings, so that  *)
(* strings.ToLower, strings.ReplaceAll, strings.Contains and fmt.Sprintf   *)
(* are computed as the code computes them.                                 *)
(*                                                                         *)
(* The specifications of the module:                                       *)
(*   Spec        request handlers running concurrently on the record       *)
(*   SpecLive    Spec under fair scheduling of the steps made under lock   *)
(*   SpecWarm    Spec from the record a resync published for a running unit*)
(*   SpecProbe   one call of WaitForModelReady against a clock             *)
(*   SpecStream  one streaming request: producer goroutine and relay loop  *)
(*   SpecStreamLive  SpecStream under fair scheduling of both tasks        *)
(*   SpecMain    the handlers of the single-file server backend/main.go    *)
(*   SpecNames   the names each site derives from one raw model name       *)
(*   SpecList    one call of GetInstalledModels on the runtime's listing   *)
(***************************************************************************)
EXTENDS Integers, Sequences, FiniteSets, TLC

VARIABLES
    currentModel,   \* models.CurrentModel: [Name, Port, IsRunning]
    rlock,          \* models.ModelMutex: the requests holding it shared
    wlock,          \* models.ModelMutex: the request holding it exclusively
    units,          \* the runtime's units, `docker ps -a` order (newest first)
    images,         \* the runtime's images: [name, pulls]
    dockerfile,     \* content of /app/models/Dockerfile: the model it pulls
    pc,             \* per request task: position in its handler
    op,             \* per request task: the handler it runs
    arg,            \* per request task: req.Model / c.Param("name") / req.Message
    local,          \* per request task: containerName captured (chat), listing (resync)
    result,         \* per request task: the response kind
    calls,          \* history: driver / probe / inference calls of the running handler
    recBefore,      \* history: the record when the handler was entered
    seen,           \* history: the record as the handler's test read it
    solo,           \* history: no other handler ran during this one
    prevOk,         \* history: model of the activate that succeeded right before
    lastActivated,  \* history: model of the latest successful activate, nothing since
    lastFailed,     \* history: unit of the latest activate whose long probe failed, no
                    \*          request but chat or stream since
    racy,           \* history: record accesses the last step made without the lock
    started,        \* number of requests accepted so far
    pTimeout, pNow, pDeadline, pPc, pPolls, pOkPolls, pResult,  \* SpecProbe
    pSlow, pHung,   \* history: an attempt or a sleep took longer; an attempt hung
    sPc, upstream, fullResponse, responseChan, errorChan,              \* SpecStream
    responseClosed, errorClosed, sent, errSent, finalSent,             \* SpecStream
    hPc, events,                                                       \* SpecStream
    body,           \* history: the response body as the stream call met it
    nDone, nRaw, nUnit, nImage, nPull,                                 \* SpecNames
    nDelUnit, nDelImage, nDelCurrent, nModel,                          \* SpecNames
    lRows,          \* SpecList: the runtime's units, [name, status, ports]
    lPc,            \* SpecList: position in GetInstalledModels
    lLines,         \* SpecList: the lines of the output still to be handled
    lOut,           \* SpecList: installedModels
    lErr            \* SpecList: the call returned an error

lifeVars == <<currentModel, rlock, wlock, units, images, dockerfile, pc, op, arg,
              local, result, calls, recBefore, seen, solo, prevOk, lastActivated, racy,
              started, lastFailed>>
probeVars == <<pTimeout, pNow, pDeadline, pPc, pPolls, pOkPolls, pResult, pSlow, pHung>>
streamVars == <<sPc, upstream, fullResponse, responseChan, errorChan,
                responseClosed, errorClosed, sent, errSent, finalSent, hPc, events,
                body>>
nameVars == <<nDone, nRaw, nUnit, nImage, nPull, nDelUnit, nDelImage, nDelCurrent, nModel>>
listVars == <<lRows, lPc, lLines, lOut, lErr>>
vars == <<lifeVars, probeVars, streamVars, nameVars, listVars>>

----------------------------------------------------------------------------
(* Bounds of the model *)

\* requests accepted in one run
MaxOps == 2

\* request tasks (gin runs each request on its own goroutine)
Procs == {"t1", "t2"}
TaskOrder == [p \in Procs |-> IF p = "t1" THEN 1 ELSE 2]

\* raw model names of requests; <<>> is the missing / empty name
RawNames == { <<>>, <<"X">>, <<"x", ":", "y">>, <<"x", "/", "y">> }

\* chat messages; <<>> is the missing / empty message
Messages == { <<>>, <<"h", "i">> }

----------------------------------------------------------------------------
(* Strings *)

UpperCase == <<"A", "B", "C", "D", "E", "F", "G", "H", "I", "J", "K", "L", "M",
               "N", "O", "P", "Q", "R", "S", "T", "U", "V", "W", "X", "Y", "Z">>
LowerCase == <<"a", "b", "c", "d", "e", "f", "g", "h", "i", "j", "k", "l", "m",
               "n", "o", "p", "q", "r", "s", "t", "u", "v", "w", "x", "y", "z">>

LowerChar(c) ==
    IF \E i \in 1..Len(UpperCase) : UpperCase[i] = c
    THEN LowerCase[CHOOSE i \in 1..Len(UpperCase) : UpperCase[i] = c]
    ELSE c

\* strings.ToLower
ToLower(s) == [i \in 1..Len(s) |-> LowerChar(s[i])]

\* strings.ReplaceAll(s, old, new) for one-character old and new
ReplaceAll(s, old, new) == [i \in 1..Len(s) |-> IF s[i] = old THEN new ELSE s[i]]

\* strings.Contains
Contains(s, sub) ==
    \E i \in 0..(Len(s) - Len(sub)) : SubSeq(s, i + 1, i + Len(sub)) = sub

OllamaPrefix == <<"o", "l", "l", "a", "m", "a", "-">>
ContainerSuffix == <<"-", "c", "o", "n", "t", "a", "i", "n", "e", "r">>

\* safeModelName of CreateModel, DeleteModel (handler) and DockerService.DeleteModel
SafeModelName(m) == ReplaceAll(ReplaceAll(ToLower(m), ":", "-"), "/", "-")

\* fmt.Sprintf("ollama-%s", safeModelName)
ImageName(m) == OllamaPrefix \o SafeModelName(m)

\* fmt.Sprintf("ollama-%s-container", safeModelName)
ContainerName(m) == OllamaPrefix \o SafeModelName(m) \o ContainerSuffix

\* utils.GenerateDockerfile: the model the build definition pulls
GenerateDockerfile(m) == ToLower(m)

\* containerName of the delete handler, from its own safeModelName
DeleteHandlerContainerName(m) ==
    OllamaPrefix \o ReplaceAll(ReplaceAll(ToLower(m), ":", "-"), "/", "-") \o ContainerSuffix

\* (mutant) a driver delete whose safe name forgets the '/'
DriverSafeModelNameColonOnly(m) == ReplaceAll(ToLower(m), ":", "-")

\* safeModelName of DockerService.DeleteModel
DriverSafeModelName(m) == ReplaceAll(ReplaceAll(ToLower(m), ":", "-"), "/", "-")

\* containerName and imageName of DockerService.DeleteModel
DriverContainerName(m) == OllamaPrefix \o DriverSafeModelName(m) \o ContainerSuffix
DriverImageName(m) == OllamaPrefix \o DriverSafeModelName(m)

\* strings.TrimPrefix and strings.TrimSuffix
TrimPrefix(s, prefix) ==
    IF Len(s) >= Len(prefix) /\ SubSeq(s, 1, Len(prefix)) = prefix
    THEN SubSeq(s, Len(prefix) + 1, Len(s))
    ELSE s

TrimSuffix(s, suffix) ==
    IF Len(s) >= Len(suffix) /\ SubSeq(s, Len(s) - Len(suffix) + 1, Len(s)) = suffix
    THEN SubSeq(s, 1, Len(s) - Len(suffix))
    ELSE s

\* modelName of OllamaService.SendMessage / SendMessageStream
ModelNameOf(containerName) ==
    TrimSuffix(TrimPrefix(containerName, <<"o", "l", "l", "a", "m", "a", "-">>),
               <<"-", "c", "o", "n", "t", "a", "i", "n", "e", "r">>)

----------------------------------------------------------------------------
(* The current model record and its lock *)

EmptyModel == [Name |-> <<>>, Port |-> "", IsRunning |-> FALSE]

\* (mutant) a published record that leaves the port unset
PublishedWithoutPort(name) == [Name |-> name, Port |-> "", IsRunning |-> TRUE]

Published(name) == [Name |-> name, Port |-> "11434", IsRunning |-> TRUE]

CanRLock == wlock = {}
CanLock(p) == wlock = {} /\ rlock = {}

HoldsShared(p) == p \in rlock \/ p \in wlock
HoldsExclusive(p) == p \in wlock

\* a read of models.CurrentModel at `site`: reported when made without the lock
ReadRecord(p, site) == IF HoldsShared(p) THEN {} ELSE {site}

\* a write of models.CurrentModel at `site`: reported when made without the lock
WriteRecord(p, site) == IF HoldsExclusive(p) THEN {} ELSE {site}

\* a step that does not touch models.CurrentModel
NoAccess == racy' = {}

----------------------------------------------------------------------------
(* The container runtime behind DockerService *)

UnitNames == { ContainerName(m) : m \in RawNames \ {<<>>} }

\* `docker ps -a --format {{.Names}}` lists the name
UnitListed(name) == \E i \in 1..Len(units) : units[i].name = name

RemoveUnit(us, name) == SelectSeq(us, LAMBDA u : u.name # name)

StartUnit(us, name) ==
    [i \in 1..Len(us) |-> IF us[i].name = name THEN [us[i] EXCEPT !.up = TRUE] ELSE us[i]]

\* the runtime a server process can find when it starts
InitialRuntimes ==
    { <<>>,
      << [name |-> ContainerName(<<"X">>), up |-> FALSE] >>,
      << [name |-> ContainerName(<<"x", ":", "y">>), up |-> TRUE] >> }


\* DockerService.GetInstalledModels: the descriptors of the listed units
InstalledModels(us) ==
    LET kept == SelectSeq(us, LAMBDA u : Contains(u.name, OllamaPrefix)
                                          /\ Contains(u.name, ContainerSuffix))
    IN [i \in 1..Len(kept) |-> [ContainerName |-> kept[i].name, IsRunning |-> kept[i].up]]

UnitUp(name) == \E i \in 1..Len(units) : units[i].name = name /\ units[i].up

----------------------------------------------------------------------------
(* Request tasks *)

Ops == {"activate", "delete", "resync", "chat", "stream", "health"}

Inputs(o) ==
    CASE o \in {"activate", "delete"} -> RawNames
      [] o \in {"chat", "stream"} -> Messages
      [] OTHER -> { <<>> }

InFlight(q) == pc[q] \notin {"idle", "done"}

\* the handler of p is at l; a handler that has written its response ends before
\* anything else is scheduled
At(p, l) == pc[p] = l /\ \A q \in Procs : pc[q] # "done"

Goto(p, l) == pc' = [pc EXCEPT ![p] = l]

\* history: the handler of p made call c, which returned ok
Call(p, c, ok) == calls' = [calls EXCEPT ![p] = Append(@, [call |-> c, ok |-> ok])]

SuccessOfActivate == {"alreadyExists", "created"}

\* the handler writes its response and returns
Finish(p, res) ==
    /\ pc' = [pc EXCEPT ![p] = "done"]
    /\ result' = [result EXCEPT ![p] = res]
    /\ lastActivated' = IF op[p] = "activate" /\ res \in SuccessOfActivate /\ solo[p]
                        THEN {arg[p]} ELSE {}
    /\ lastFailed' = IF op[p] = "activate" /\ res = "startError" /\ solo[p]
                     THEN {ContainerName(arg[p])}
                     ELSE IF op[p] \in {"chat", "stream"} /\ solo[p] THEN lastFailed ELSE {}

Continue(p, l) == Goto(p, l) /\ UNCHANGED <<result, lastActivated, lastFailed>>

\* (mutant) handlers that skip the check of their input
FirstStepUnchecked(o, a) ==
    CASE o = "activate" -> "a_rlock"
      [] o = "delete" -> "d_rm"
      [] o = "chat" -> "c_rlock"
      [] o = "stream" -> "s_rlock"
      [] o = "resync" -> "r_list"
      [] OTHER -> "h_rlock"

\* c.ShouldBindJSON with binding:"required" / c.Param("name") == ""
FirstStep(o, a) ==
    CASE o = "activate" -> IF a = <<>> THEN "done" ELSE "a_rlock"
      [] o = "delete" -> IF a = <<>> THEN "done" ELSE "d_rm"
      [] o = "chat" -> IF a = <<>> THEN "done" ELSE "c_rlock"
      [] o = "stream" -> IF a = <<>> THEN "done" ELSE "s_rlock"
      [] o = "resync" -> "r_list"
      [] OTHER -> "h_rlock"

\* tasks are interchangeable: a new request runs on the first idle one
FirstIdle == CHOOSE q \in Procs : pc[q] = "idle" /\ \A r \in Procs : pc[r] = "idle" => TaskOrder[q] <= TaskOrder[r]

\* gin dispatches a request to its handler on a task of its own
Begin(p) ==
    /\ At(p, "idle")
    /\ p = FirstIdle
    /\ started < MaxOps
    /\ \E o \in Ops : \E a \in Inputs(o) :
         /\ op' = [op EXCEPT ![p] = o]
         /\ arg' = [arg EXCEPT ![p] = a]
         /\ pc' = [pc EXCEPT ![p] = FirstStep(o, a)]
         /\ result' = [result EXCEPT ![p] =
                          IF FirstStep(o, a) = "done" THEN "badRequest" ELSE "none"]
         /\ lastFailed' = IF o \in {"chat", "stream"} /\ \A r \in Procs : ~InFlight(r)
                          THEN lastFailed ELSE {}
    /\ started' = started + 1
    /\ calls' = [calls EXCEPT ![p] = <<>>]
    /\ local' = [local EXCEPT ![p] = <<>>]
    /\ recBefore' = [recBefore EXCEPT ![p] = currentModel]
    /\ UNCHANGED seen
    /\ solo' = [q \in Procs |->
                  IF q = p THEN \A r \in Procs \ {p} : ~InFlight(r)
                  ELSE IF InFlight(q) THEN FALSE ELSE solo[q]]
    /\ prevOk' = [prevOk EXCEPT ![p] = lastActivated]
    /\ lastActivated' = {}
    /\ UNCHANGED <<currentModel, rlock, wlock, units, images, dockerfile>>
    /\ NoAccess
    /\ UNCHANGED <<probeVars, streamVars, nameVars, listVars>>

\* the task ends
Return(p) ==
    /\ pc[p] = "done"
    /\ pc' = [pc EXCEPT ![p] = "idle"]
    /\ op' = [op EXCEPT ![p] = "none"]
    /\ arg' = [arg EXCEPT ![p] = <<>>]
    /\ local' = [local EXCEPT ![p] = <<>>]
    /\ result' = [result EXCEPT ![p] = "none"]
    /\ calls' = [calls EXCEPT ![p] = <<>>]
    /\ recBefore' = [recBefore EXCEPT ![p] = EmptyModel]
    /\ seen' = [seen EXCEPT ![p] = EmptyModel]
    /\ solo' = [solo EXCEPT ![p] = FALSE]
    /\ prevOk' = [prevOk EXCEPT ![p] = {}]
    /\ NoAccess
    /\ UNCHANGED <<currentModel, rlock, wlock, units, images, dockerfile,
                   lastActivated, lastFailed, started>>
    /\ UNCHANGED <<probeVars, streamVars, nameVars, listVars>>

histU == UNCHANGED <<op, arg, recBefore, seen, solo, prevOk, started>>
histS == UNCHANGED <<op, arg, recBefore, solo, prevOk, started>>

\* history: the handler of p tests the record as it is now
Seen(p) == seen' = [seen EXCEPT ![p] = currentModel]
runtimeU == UNCHANGED <<units, images, dockerfile>>
lockU == UNCHANGED <<rlock, wlock>>
otherU == UNCHANGED <<probeVars, streamVars, nameVars, listVars>>

\* models.ModelMutex.RLock()
AcquireShared(p, from, to) ==
    /\ At(p, from)
    /\ CanRLock
    /\ rlock' = rlock \cup {p}
    /\ Continue(p, to)
    /\ UNCHANGED <<currentModel, wlock, local, calls>>
    /\ NoAccess
    /\ runtimeU /\ histU /\ otherU

\* models.ModelMutex.Lock()
AcquireExclusive(p, from, to) ==
    /\ At(p, from)
    /\ CanLock(p)
    /\ wlock' = {p}
    /\ Continue(p, to)
    /\ UNCHANGED <<currentModel, rlock, local, calls>>
    /\ NoAccess
    /\ runtimeU /\ histU /\ otherU


----------------------------------------------------------------------------
(* ModelHandler.CreateModel *)

\* the already-running test of the fast path
AlreadyRunning(rec, m) == rec.IsRunning /\ Contains(rec.Name, ToLower(m))

ActRLock(p) == AcquireShared(p, "a_rlock", "a_check")

\* the fast-path test under the shared lock, then RUnlock on either branch
ActCheck(p) ==
    /\ At(p, "a_check")
    /\ racy' = ReadRecord(p, "CreateModel:148")
    /\ Seen(p)
    /\ rlock' = rlock \ {p}
    /\ IF AlreadyRunning(currentModel, arg[p])
       THEN Continue(p, "a_fastresp")
       ELSE Continue(p, "a_exists")
    /\ UNCHANGED <<currentModel, wlock, local, calls>>
    /\ runtimeU /\ histS /\ otherU

\* the fast-path response: CurrentModel.Name and .Port are read after RUnlock
ActFastResponse(p) ==
    /\ At(p, "a_fastresp")
    /\ racy' = ReadRecord(p, "CreateModel:153")
    /\ Finish(p, "alreadyExists")
    /\ UNCHANGED <<currentModel, local, calls>>
    /\ lockU /\ runtimeU /\ histU /\ otherU

\* dockerService.ContainerExists: false also when the listing command fails
ActContainerExists(p) ==
    /\ At(p, "a_exists")
    /\ \E listed \in BOOLEAN :
         LET found == listed /\ UnitListed(ContainerName(arg[p]))
         IN /\ Call(p, "unitExists", found)
            /\ Continue(p, IF found THEN "a_start" ELSE "a_stop")
    /\ UNCHANGED <<currentModel, local>>
    /\ NoAccess
    /\ lockU /\ runtimeU /\ histU /\ otherU

\* dockerService.StartExistingContainer
ActStartExisting(p) ==
    /\ At(p, "a_start")
    /\ \E ok \in BOOLEAN :
         LET started_ok == ok /\ UnitListed(ContainerName(arg[p]))
         IN /\ Call(p, "startExisting", started_ok)
            /\ IF started_ok
               THEN /\ units' = StartUnit(units, ContainerName(arg[p]))
                    /\ Continue(p, "a_plock")
               ELSE /\ UNCHANGED units
                    /\ Continue(p, "a_stop")
    /\ UNCHANGED <<currentModel, local, images, dockerfile>>
    /\ NoAccess
    /\ lockU /\ histU /\ otherU

ActProvisionalLock(p) == AcquireExclusive(p, "a_plock", "a_ppub")

\* the provisional record of the existing unit, then Unlock
ActProvisionalPublish(p) ==
    /\ At(p, "a_ppub")
    /\ racy' = WriteRecord(p, "CreateModel:170")
    /\ currentModel' = Published(ContainerName(arg[p]))
    /\ wlock' = wlock \ {p}
    /\ Call(p, "publish", TRUE)
    /\ Continue(p, "a_probe30")
    /\ UNCHANGED <<rlock, local>>
    /\ runtimeU /\ histU /\ otherU

\* (mutant) a short probe whose failure fails the activation
ActShortProbeFails(p) ==
    /\ At(p, "a_probe30")
    /\ \E ok \in BOOLEAN :
         LET ready == ok /\ UnitUp(ContainerName(arg[p]))
         IN /\ Call(p, "probe30", ready)
            /\ Finish(p, IF ready THEN "alreadyExists" ELSE "startError")
    /\ UNCHANGED <<currentModel, local>>
    /\ NoAccess
    /\ lockU /\ runtimeU /\ histU /\ otherU

\* WaitForModelReady(containerName, 30s): only a unit that is up can answer
ActShortProbe(p) ==
    /\ At(p, "a_probe30")
    /\ \E ok \in BOOLEAN :
         LET ready == ok /\ UnitUp(ContainerName(arg[p]))
         IN /\ Call(p, "probe30", ready)
            /\ IF ready THEN Finish(p, "alreadyExists") ELSE Continue(p, "a_stop")
    /\ UNCHANGED <<currentModel, local>>
    /\ NoAccess
    /\ lockU /\ runtimeU /\ histU /\ otherU

ActStopLock(p) == AcquireExclusive(p, "a_stop", "a_stopw")

\* (mutant) a stop-current that clears the whole record
StoppedModelCleared(rec) ==
    IF rec.IsRunning /\ rec.Name # <<>> THEN EmptyModel ELSE rec

\* (mutant) a stop-current that leaves the record as it is
StoppedModelKept(rec) == rec

\* the record after ModelHandler.stopCurrentModel
StoppedModel(rec) ==
    IF rec.IsRunning /\ rec.Name # <<>> THEN [rec EXCEPT !.IsRunning = FALSE] ELSE rec

\* ModelHandler.stopCurrentModel under the exclusive lock, then the deferred Unlock
ActStopCurrent(p) ==
    /\ At(p, "a_stopw")
    /\ racy' = ReadRecord(p, "stopCurrentModel:354")
                    \cup WriteRecord(p, "stopCurrentModel:358")
    /\ currentModel' = StoppedModel(currentModel)
    /\ wlock' = wlock \ {p}
    /\ Continue(p, "a_write")
    /\ UNCHANGED <<rlock, local, calls>>
    /\ runtimeU /\ histU /\ otherU

\* GenerateDockerfile, os.MkdirAll, os.WriteFile of /app/models/Dockerfile
ActWriteDockerfile(p) ==
    /\ At(p, "a_write")
    /\ \E outcome \in {"ok", "mkdirError", "writeError"} :
         IF outcome = "ok"
         THEN /\ dockerfile' = {GenerateDockerfile(arg[p])}
              /\ Continue(p, "a_build")
         ELSE /\ UNCHANGED dockerfile
              /\ Finish(p, outcome)
    /\ UNCHANGED <<currentModel, local, calls, units, images>>
    /\ NoAccess
    /\ lockU /\ histU /\ otherU

\* (mutant) BuildDockerImage whose error is ignored by the handler
ActBuildErrorIgnored(p) ==
    /\ At(p, "a_build")
    /\ \E ok \in BOOLEAN :
         /\ Call(p, "build", ok)
         /\ images' = IF ok
                      THEN {i \in images : i.name # ImageName(arg[p])}
                             \cup {[name |-> ImageName(arg[p]), pulls |-> dockerfile]}
                      ELSE images
    /\ Continue(p, "a_run")
    /\ UNCHANGED <<currentModel, local, units, dockerfile>>
    /\ NoAccess
    /\ lockU /\ histU /\ otherU

\* dockerService.BuildDockerImage(modelsDir, imageName): builds what the file says now
ActBuild(p) ==
    /\ At(p, "a_build")
    /\ \E ok \in BOOLEAN :
         /\ Call(p, "build", ok)
         /\ IF ok
            THEN /\ images' = {i \in images : i.name # ImageName(arg[p])}
                                \cup {[name |-> ImageName(arg[p]), pulls |-> dockerfile]}
                 /\ Continue(p, "a_run")
            ELSE /\ UNCHANGED images
                 /\ Finish(p, "buildError")
    /\ UNCHANGED <<currentModel, local, units, dockerfile>>
    /\ NoAccess
    /\ lockU /\ histU /\ otherU

\* (mutant) RunDockerContainer whose error is ignored by the handler
ActRunErrorIgnored(p) ==
    /\ At(p, "a_run")
    /\ \E ok \in BOOLEAN :
         /\ Call(p, "run", ok)
         /\ units' = IF ok THEN <<[name |-> ContainerName(arg[p]), up |-> TRUE]>>
                                  \o RemoveUnit(units, ContainerName(arg[p]))
                      ELSE units
    /\ Continue(p, "a_lock")
    /\ UNCHANGED <<currentModel, local, images, dockerfile>>
    /\ NoAccess
    /\ lockU /\ histU /\ otherU

\* (mutant) a run that is tried once more when it fails
ActRunRetries(p) ==
    /\ At(p, "a_run")
    /\ \E removed \in BOOLEAN, ok \in BOOLEAN, again \in BOOLEAN :
         LET name == ContainerName(arg[p])
             base == IF removed THEN RemoveUnit(units, name) ELSE units
             free == \A i \in 1..Len(base) : base[i].name # name
             have == \E i \in images : i.name = ImageName(arg[p])
             ran == ok /\ free /\ have
             reran == again /\ free /\ have
             first == Append(calls[p], [call |-> "run", ok |-> ran])
         IN /\ calls' = [calls EXCEPT ![p] =
                            IF ran THEN first
                            ELSE Append(first, [call |-> "run", ok |-> reran])]
            /\ IF ran \/ reran
               THEN /\ units' = <<[name |-> name, up |-> TRUE]>> \o base
                    /\ Continue(p, "a_lock")
               ELSE /\ units' = base
                    /\ Finish(p, "runError")
    /\ UNCHANGED <<currentModel, local, images, dockerfile>>
    /\ NoAccess
    /\ lockU /\ histU /\ otherU

\* dockerService.RunDockerContainer: `docker rm -f` (result ignored), then `docker run`
ActRun(p) ==
    /\ At(p, "a_run")
    /\ \E removed \in BOOLEAN, ok \in BOOLEAN :
         LET name == ContainerName(arg[p])
             base == IF removed THEN RemoveUnit(units, name) ELSE units
             free == \A i \in 1..Len(base) : base[i].name # name
             have == \E i \in images : i.name = ImageName(arg[p])
             ran == ok /\ free /\ have
         IN /\ Call(p, "run", ran)
            /\ IF ran
               THEN /\ units' = <<[name |-> name, up |-> TRUE]>> \o base
                    /\ Continue(p, "a_lock")
               ELSE /\ units' = base
                    /\ Finish(p, "runError")
    /\ UNCHANGED <<currentModel, local, images, dockerfile>>
    /\ NoAccess
    /\ lockU /\ histU /\ otherU

ActPublishLock(p) == AcquireExclusive(p, "a_lock", "a_pub")

\* (mutant) a publish that sets the name and the flag and leaves the port as it was
ActPublishNameOnly(p) ==
    /\ At(p, "a_pub")
    /\ racy' = WriteRecord(p, "CreateModel:227")
    /\ currentModel' = [currentModel EXCEPT !.Name = ContainerName(arg[p]),
                                            !.IsRunning = TRUE]
    /\ wlock' = wlock \ {p}
    /\ Call(p, "publish", TRUE)
    /\ Continue(p, "a_probe300")
    /\ UNCHANGED <<rlock, local>>
    /\ runtimeU /\ histU /\ otherU

\* (mutant) a publish that leaves the record not running until the probe has passed
ActPublishNotRunning(p) ==
    /\ At(p, "a_pub")
    /\ racy' = WriteRecord(p, "CreateModel:227")
    /\ currentModel' = [Name |-> ContainerName(arg[p]), Port |-> "11434",
                        IsRunning |-> FALSE]
    /\ wlock' = wlock \ {p}
    /\ Call(p, "publish", TRUE)
    /\ Continue(p, "a_probe300")
    /\ UNCHANGED <<rlock, local>>
    /\ runtimeU /\ histU /\ otherU

\* the new current record, then Unlock
ActPublish(p) ==
    /\ At(p, "a_pub")
    /\ racy' = WriteRecord(p, "CreateModel:227")
    /\ currentModel' = Published(ContainerName(arg[p]))
    /\ wlock' = wlock \ {p}
    /\ Call(p, "publish", TRUE)
    /\ Continue(p, "a_probe300")
    /\ UNCHANGED <<rlock, local>>
    /\ runtimeU /\ histU /\ otherU

\* (mutant) a long probe whose failure takes the published record back
ActLongProbeRollsBack(p) ==
    /\ At(p, "a_probe300")
    /\ \E ok \in BOOLEAN :
         LET ready == ok /\ UnitUp(ContainerName(arg[p]))
         IN /\ Call(p, "probe300", ready)
            /\ currentModel' = IF ready THEN currentModel ELSE EmptyModel
            /\ Finish(p, IF ready THEN "created" ELSE "startError")
    /\ UNCHANGED local
    /\ NoAccess
    /\ lockU /\ runtimeU /\ histU /\ otherU

\* WaitForModelReady(containerName, 300s)
ActLongProbe(p) ==
    /\ At(p, "a_probe300")
    /\ \E ok \in BOOLEAN :
         LET ready == ok /\ UnitUp(ContainerName(arg[p]))
         IN /\ Call(p, "probe300", ready)
            /\ Finish(p, IF ready THEN "created" ELSE "startError")
    /\ UNCHANGED <<currentModel, local>>
    /\ NoAccess
    /\ lockU /\ runtimeU /\ histU /\ otherU

CreateModel(p) ==
    \/ ActRLock(p) \/ ActCheck(p) \/ ActFastResponse(p)
    \/ ActContainerExists(p) \/ ActStartExisting(p)
    \/ ActProvisionalLock(p) \/ ActProvisionalPublish(p) \/ ActShortProbe(p)
    \/ ActStopLock(p) \/ ActStopCurrent(p)
    \/ ActWriteDockerfile(p) \/ ActBuild(p) \/ ActRun(p)
    \/ ActPublishLock(p) \/ ActPublish(p) \/ ActLongProbe(p)


----------------------------------------------------------------------------
(* ModelHandler.DeleteModel and DockerService.DeleteModel *)

\* `docker rm -f <container>`: its failure fails the call
DelRemoveUnit(p) ==
    /\ At(p, "d_rm")
    /\ \E ok \in BOOLEAN :
         /\ Call(p, "removeUnit", ok)
         /\ IF ok
            THEN /\ units' = RemoveUnit(units, DriverContainerName(arg[p]))
                 /\ Continue(p, "d_rmi")
            ELSE /\ UNCHANGED units
                 /\ Finish(p, "deleteError")
    /\ UNCHANGED <<currentModel, local, images, dockerfile>>
    /\ NoAccess
    /\ lockU /\ histU /\ otherU

\* (mutant) a delete that fails when the image cannot be removed
DelRemoveImageFails(p) ==
    /\ At(p, "d_rmi")
    /\ \E ok \in BOOLEAN :
         /\ Call(p, "removeImage", ok)
         /\ images' = IF ok THEN {i \in images : i.name # DriverImageName(arg[p])} ELSE images
         /\ IF ok THEN Continue(p, "d_lock") ELSE Finish(p, "deleteError")
    /\ UNCHANGED <<currentModel, local, units, dockerfile>>
    /\ NoAccess
    /\ lockU /\ histU /\ otherU

\* `docker rmi -f <image>`: its result is ignored
DelRemoveImage(p) ==
    /\ At(p, "d_rmi")
    /\ \E ok \in BOOLEAN :
         /\ Call(p, "removeImage", ok)
         /\ images' = IF ok THEN {i \in images : i.name # DriverImageName(arg[p])} ELSE images
    /\ Continue(p, "d_lock")
    /\ UNCHANGED <<currentModel, local, units, dockerfile>>
    /\ NoAccess
    /\ lockU /\ histU /\ otherU

DelLock(p) == AcquireExclusive(p, "d_lock", "d_upd")

\* (mutant) the delete handler comparing with the name built from the raw model name
AfterDeleteRawName(rec, m) ==
    IF rec.Name = OllamaPrefix \o ToLower(m) \o ContainerSuffix THEN EmptyModel ELSE rec

\* the record after the delete handler's update for model m
AfterDelete(rec, m) ==
    IF rec.Name = DeleteHandlerContainerName(m) THEN EmptyModel ELSE rec

\* reset the record if it names the deleted unit, then Unlock
DelUpdate(p) ==
    /\ At(p, "d_upd")
    /\ racy' = ReadRecord(p, "DeleteModel:288")
                    \cup WriteRecord(p, "DeleteModel:289")
    /\ currentModel' = AfterDelete(currentModel, arg[p])
    /\ wlock' = wlock \ {p}
    /\ Finish(p, "deleted")
    /\ UNCHANGED <<rlock, local, calls>>
    /\ runtimeU /\ histU /\ otherU

DeleteModel(p) ==
    DelRemoveUnit(p) \/ DelRemoveImage(p) \/ DelLock(p) \/ DelUpdate(p)

----------------------------------------------------------------------------
(* ModelHandler.RefreshCurrentModel *)

\* dockerService.GetInstalledModels, before the lock is taken
RefList(p) ==
    /\ At(p, "r_list")
    /\ \E ok \in BOOLEAN :
         /\ Call(p, "listUnits", ok)
         /\ IF ok
            THEN /\ local' = [local EXCEPT ![p] = InstalledModels(units)]
                 /\ Continue(p, "r_lock")
            ELSE /\ UNCHANGED local
                 /\ Finish(p, "listError")
    /\ UNCHANGED <<currentModel>>
    /\ NoAccess
    /\ lockU /\ runtimeU /\ histU /\ otherU

RefLock(p) == AcquireExclusive(p, "r_lock", "r_reset")

\* models.CurrentModel = models.ModelContainer{}
RefReset(p) ==
    /\ At(p, "r_reset")
    /\ racy' = WriteRecord(p, "RefreshCurrentModel:322")
    /\ currentModel' = EmptyModel
    /\ Continue(p, "r_scan")
    /\ UNCHANGED <<local, calls>>
    /\ lockU /\ runtimeU /\ histU /\ otherU

\* (mutant) a scan without the break: the last running model wins
LastRunning(rec, installed) ==
    IF \E i \in 1..Len(installed) : installed[i].IsRunning
    THEN LET last == CHOOSE i \in 1..Len(installed) :
                        /\ installed[i].IsRunning
                        /\ \A j \in (i + 1)..Len(installed) : ~installed[j].IsRunning
         IN Published(installed[last].ContainerName)
    ELSE rec

\* the record the scan of the listing leaves, starting from rec
FirstRunning(rec, installed) ==
    IF \E i \in 1..Len(installed) : installed[i].IsRunning
    THEN LET first == CHOOSE i \in 1..Len(installed) :
                         /\ installed[i].IsRunning
                         /\ \A j \in 1..(i - 1) : ~installed[j].IsRunning
         IN Published(installed[first].ContainerName)
    ELSE rec

\* the scan for the first running model, the copy of the record, then Unlock
RefScan(p) ==
    /\ At(p, "r_scan")
    /\ racy' = WriteRecord(p, "RefreshCurrentModel:325")
                    \cup ReadRecord(p, "RefreshCurrentModel:333")
    /\ currentModel' = FirstRunning(currentModel, local[p])
    /\ wlock' = wlock \ {p}
    /\ Finish(p, IF currentModel'.IsRunning THEN "refreshed" ELSE "noneRunning")
    /\ UNCHANGED <<rlock, local, calls>>
    /\ runtimeU /\ histU /\ otherU

RefreshCurrentModel(p) == RefList(p) \/ RefLock(p) \/ RefReset(p) \/ RefScan(p)

----------------------------------------------------------------------------
(* ChatHandler.SendMessage, ChatHandler.SendMessageStream, HealthHandler *)

\* (mutant) the relay that forgets the test
RelayAllowedAlways(rec) == TRUE

\* the relay's test of the record: the request proceeds only if it is running
RelayAllowed(rec) == rec.IsRunning

\* (mutant) the relay whose no-model return forgets RUnlock
RelayCheckKeepsLockOnError(p, from, to, site) ==
    /\ At(p, from)
    /\ racy' = ReadRecord(p, site)
    /\ Seen(p)
    /\ IF RelayAllowed(currentModel)
       THEN /\ local' = [local EXCEPT ![p] = currentModel.Name]
            /\ rlock' = rlock \ {p}
            /\ Continue(p, to)
       ELSE /\ UNCHANGED <<local, rlock>>
            /\ Finish(p, "noModel")
    /\ UNCHANGED <<currentModel, wlock, calls>>
    /\ runtimeU /\ histS /\ otherU

\* (mutant) the relay that keeps the shared lock for the inference call
RelayCheckAcrossCall(p, from, to, site) ==
    /\ At(p, from)
    /\ racy' = ReadRecord(p, site)
    /\ Seen(p)
    /\ IF RelayAllowed(currentModel)
       THEN /\ local' = [local EXCEPT ![p] = currentModel.Name]
            /\ UNCHANGED rlock
            /\ Continue(p, to)
       ELSE /\ UNCHANGED local
            /\ rlock' = rlock \ {p}
            /\ Finish(p, "noModel")
    /\ UNCHANGED <<currentModel, wlock, calls>>
    /\ runtimeU /\ histS /\ otherU

\* the test and the capture of the unit name under the shared lock, then RUnlock
RelayCheck(p, from, to, site) ==
    /\ At(p, from)
    /\ racy' = ReadRecord(p, site)
    /\ Seen(p)
    /\ rlock' = rlock \ {p}
    /\ IF RelayAllowed(currentModel)
       THEN /\ local' = [local EXCEPT ![p] = currentModel.Name]
            /\ Continue(p, to)
       ELSE /\ UNCHANGED local
            /\ Finish(p, "noModel")
    /\ UNCHANGED <<currentModel, wlock, calls>>
    /\ runtimeU /\ histS /\ otherU

\* (mutant) the inference request to the name the record holds at the call
RelayInferRereads(p, from, good, bad) ==
    /\ At(p, from)
    /\ \E ok \in BOOLEAN :
         /\ Call(p, "infer", ok)
         /\ Finish(p, IF ok THEN good ELSE bad)
    /\ local' = [local EXCEPT ![p] = currentModel.Name]
    /\ UNCHANGED currentModel
    /\ NoAccess
    /\ lockU /\ runtimeU /\ histU /\ otherU

\* the inference request to the captured unit, with no lock held
RelayInfer(p, from, good, bad) ==
    /\ At(p, from)
    /\ \E ok \in BOOLEAN :
         /\ Call(p, "infer", ok)
         /\ Finish(p, IF ok THEN good ELSE bad)
    /\ UNCHANGED <<currentModel, local>>
    /\ NoAccess
    /\ lockU /\ runtimeU /\ histU /\ otherU

ChatRLock(p) == AcquireShared(p, "c_rlock", "c_check")
ChatCheck(p) == RelayCheck(p, "c_check", "c_infer", "SendMessage:82")
ChatInfer(p) == RelayInfer(p, "c_infer", "response", "inferError")

StreamRLock(p) == AcquireShared(p, "s_rlock", "s_check")
StreamCheck(p) == RelayCheck(p, "s_check", "s_infer", "SendMessageStream:33")
StreamInfer(p) == RelayInfer(p, "s_infer", "streamed", "streamError")

HealthRLock(p) == AcquireShared(p, "h_rlock", "h_read")

\* the status response under the shared lock, then the deferred RUnlock
HealthRead(p) ==
    /\ At(p, "h_read")
    /\ racy' = ReadRecord(p, "CheckHealth:24")
    /\ Seen(p)
    /\ rlock' = rlock \ {p}
    /\ Finish(p, "healthy")
    /\ UNCHANGED <<currentModel, wlock, local, calls>>
    /\ runtimeU /\ histS /\ otherU

Relay(p) ==
    \/ ChatRLock(p) \/ ChatCheck(p) \/ ChatInfer(p)
    \/ StreamRLock(p) \/ StreamCheck(p) \/ StreamInfer(p)
    \/ HealthRLock(p) \/ HealthRead(p)

----------------------------------------------------------------------------
(* The server *)

ProbeIdle ==
    /\ pTimeout = 0 /\ pNow = 0 /\ pDeadline = 0 /\ pPc = "idle"
    /\ pPolls = 0 /\ pOkPolls = 0 /\ pResult = "none"
    /\ pSlow = FALSE /\ pHung = FALSE

StreamIdle ==
    /\ sPc = "idle" /\ upstream = <<>> /\ fullResponse = <<>>
    /\ responseChan = <<>> /\ errorChan = <<>>
    /\ responseClosed = FALSE /\ errorClosed = FALSE
    /\ sent = <<>> /\ errSent = 0 /\ finalSent = 0
    /\ hPc = "idle" /\ events = <<>>
    /\ body = <<>>

ListIdle ==
    /\ lRows = <<>> /\ lPc = "idle" /\ lLines = <<>> /\ lOut = <<>> /\ lErr = FALSE

NamesIdle ==
    /\ nDone = {} /\ nRaw = <<>> /\ nUnit = <<>> /\ nImage = <<>> /\ nPull = <<>>
    /\ nDelUnit = <<>> /\ nDelImage = <<>> /\ nDelCurrent = <<>> /\ nModel = <<>>

\* process start: the zero-valued record, the unlocked mutex, whatever the runtime holds
InitLife ==
    /\ currentModel = EmptyModel
    /\ rlock = {} /\ wlock = {}
    /\ units \in InitialRuntimes
    /\ images = {}
    /\ dockerfile = {}
    /\ pc = [p \in Procs |-> "idle"]
    /\ op = [p \in Procs |-> "none"]
    /\ arg = [p \in Procs |-> <<>>]
    /\ local = [p \in Procs |-> <<>>]
    /\ result = [p \in Procs |-> "none"]
    /\ calls = [p \in Procs |-> <<>>]
    /\ recBefore = [p \in Procs |-> EmptyModel]
    /\ seen = [p \in Procs |-> EmptyModel]
    /\ solo = [p \in Procs |-> FALSE]
    /\ prevOk = [p \in Procs |-> {}]
    /\ lastActivated = {}
    /\ lastFailed = {}
    /\ racy = {}
    /\ started = 0

Init == InitLife /\ ProbeIdle /\ StreamIdle /\ NamesIdle /\ ListIdle

Next ==
    \E p \in Procs :
        \/ Begin(p)
        \/ CreateModel(p)
        \/ DeleteModel(p)
        \/ RefreshCurrentModel(p)
        \/ Relay(p)
        \/ Return(p)

Spec == Init /\ [][Next]_vars


----------------------------------------------------------------------------
(* The server under fair scheduling.  The code between Lock/RLock and the Unlock  *)
(* that follows is straight-line and makes no call that can block, so a task that *)
(* holds the mutex goes on; a Lock() on a mutex that stays free is granted; a     *)
(* handler that has written its response returns.  Nothing is assumed of the      *)
(* driver, probe and inference calls: each may never return, and no request has   *)
(* to arrive.                                                                     *)

\* the steps a handler makes while it holds the mutex
UnderLock(p) ==
    \/ ActCheck(p) \/ ActProvisionalPublish(p) \/ ActStopCurrent(p) \/ ActPublish(p)
    \/ DelUpdate(p) \/ RefReset(p) \/ RefScan(p)
    \/ ChatCheck(p) \/ StreamCheck(p) \/ HealthRead(p)

\* models.ModelMutex.Lock() of CreateModel, stopCurrentModel, DeleteModel and
\* RefreshCurrentModel
TakesExclusive(p) ==
    \/ ActProvisionalLock(p) \/ ActStopLock(p) \/ ActPublishLock(p)
    \/ DelLock(p) \/ RefLock(p)

Fairness ==
    \A p \in Procs :
        /\ WF_vars(UnderLock(p))
        /\ WF_vars(TakesExclusive(p))
        /\ WF_vars(Return(p))

SpecLive == Init /\ [][Next]_vars /\ Fairness

----------------------------------------------------------------------------
(* The server once a resync has published the running unit it found: the state   *)
(* RefreshCurrentModel leaves when the runtime holds one unit that is up.  The    *)
(* requests accepted from then on are counted from zero.                          *)

WarmUnit == ContainerName(<<"x", ":", "y">>)

InitWarm ==
    /\ currentModel = FirstRunning(EmptyModel,
                                   InstalledModels(<<[name |-> WarmUnit, up |-> TRUE]>>))
    /\ rlock = {} /\ wlock = {}
    /\ units = <<[name |-> WarmUnit, up |-> TRUE]>>
    /\ images = {}
    /\ dockerfile = {}
    /\ pc = [p \in Procs |-> "idle"]
    /\ op = [p \in Procs |-> "none"]
    /\ arg = [p \in Procs |-> <<>>]
    /\ local = [p \in Procs |-> <<>>]
    /\ result = [p \in Procs |-> "none"]
    /\ calls = [p \in Procs |-> <<>>]
    /\ recBefore = [p \in Procs |-> EmptyModel]
    /\ seen = [p \in Procs |-> EmptyModel]
    /\ solo = [p \in Procs |-> FALSE]
    /\ prevOk = [p \in Procs |-> {}]
    /\ lastActivated = {}
    /\ lastFailed = {}
    /\ racy = {}
    /\ started = 0
    /\ ProbeIdle /\ StreamIdle /\ NamesIdle /\ ListIdle

SpecWarm == InitWarm /\ [][Next]_vars

----------------------------------------------------------------------------
(* DockerService.WaitForModelReady: one call, against a clock in time units *)

\* the overall timeouts CreateModel passes
ShortProbeTimeout == 30
LongProbeTimeout == 300

\* http.Client{Timeout: ...} of the probe: the longest one attempt can take
PerAttemptTimeout == 100

\* time.Sleep between attempts
PollInterval == 2

\* the deadline, in poll intervals, of a short call of the probe
TestIntervals == 6

\* how much longer than asked a sleep may last
MaxOversleep == 1

ActivateTimeouts == {ShortProbeTimeout, LongProbeTimeout}

ProbeTimeouts == ActivateTimeouts \cup {TestIntervals * PollInterval}

\* what one GET can take: an answer at once, a slow answer, a hang cut by the client
AttemptDurations == {0, 1, PerAttemptTimeout}

\* (mutant) a loop that still polls at the deadline itself
NotAfterDeadline(now, deadline) == now <= deadline

\* time.Now().Before(deadline)
BeforeDeadline(now, deadline) == now < deadline

\* deadline := time.Now().Add(timeout)
ProbeCall ==
    /\ pPc = "idle"
    /\ \E t \in ProbeTimeouts :
         /\ pTimeout' = t
         /\ pDeadline' = pNow + t
    /\ pPc' = "loop"
    /\ UNCHANGED <<pNow, pPolls, pOkPolls, pSlow, pHung, pResult>>
    /\ UNCHANGED <<lifeVars, streamVars, nameVars, listVars>>

\* the loop condition; the timeout error when it fails
ProbeLoop ==
    /\ pPc = "loop"
    /\ IF BeforeDeadline(pNow, pDeadline)
       THEN pPc' = "get" /\ UNCHANGED pResult
       ELSE pPc' = "done" /\ pResult' = "timeout"
    /\ UNCHANGED <<pTimeout, pNow, pDeadline, pPolls, pOkPolls, pSlow, pHung>>
    /\ UNCHANGED <<lifeVars, streamVars, nameVars, listVars>>

\* client.Get: success is err == nil with status 200; a hang ends in an error
ProbeGet ==
    /\ pPc = "get"
    /\ \E d \in AttemptDurations, answer \in {"200", "503", "error"} :
         /\ d = PerAttemptTimeout => answer = "error"
         /\ pNow' = pNow + d
         /\ pSlow' = (pSlow \/ d > 0)
         /\ pHung' = (pHung \/ d = PerAttemptTimeout)
         /\ pPolls' = pPolls + 1
         /\ IF answer = "200"
            THEN /\ pOkPolls' = pOkPolls + 1
                 /\ pPc' = "done"
                 /\ pResult' = "ready"
            ELSE /\ pPc' = "sleep"
                 /\ UNCHANGED <<pOkPolls, pResult>>
    /\ UNCHANGED <<pTimeout, pDeadline>>
    /\ UNCHANGED <<lifeVars, streamVars, nameVars, listVars>>

\* time.Sleep(2 * time.Second): at least the interval
ProbeSleep ==
    /\ pPc = "sleep"
    /\ \E over \in 0..MaxOversleep :
         /\ pNow' = pNow + PollInterval + over
         /\ pSlow' = (pSlow \/ over > 0)
    /\ pPc' = "loop"
    /\ UNCHANGED <<pTimeout, pDeadline, pPolls, pOkPolls, pResult, pHung>>
    /\ UNCHANGED <<lifeVars, streamVars, nameVars, listVars>>

\* the server at rest, the stream idle, the probe not yet called
InitProbe == InitLife /\ units = <<>> /\ ProbeIdle /\ StreamIdle /\ NamesIdle /\ ListIdle

NextProbe == ProbeCall \/ ProbeLoop \/ ProbeGet \/ ProbeSleep

SpecProbe == InitProbe /\ [][NextProbe]_vars

----------------------------------------------------------------------------
(* OllamaService.SendMessageStream (the producer goroutine) and the loop of      *)
(* ChatHandler.SendMessageStream that relays its two channels to the caller      *)

\* make(chan string, 10) and make(chan error, 1)
ResponseChanCap == 10
ErrorChanCap == 1

\* objects in an upstream body drawn item by item
MaxUpstream == 2

\* fragments in an upstream body that overfills the chunk channel
MaxFragments == 11

\* one decoded models.OllamaResponse, or a token the decoder rejects
Object(r, d) == [response |-> r, done |-> d, bad |-> FALSE]
BadObject == [response |-> <<>>, done |-> FALSE, bad |-> TRUE]

Items ==
    { Object(<<"a">>, FALSE), Object(<<"b">>, FALSE), Object(<<>>, FALSE),
      Object(<<"a">>, TRUE), Object(<<>>, TRUE), BadObject }

RECURSIVE SeqsUpTo(_)
SeqsUpTo(n) ==
    IF n = 0 THEN { <<>> }
    ELSE LET shorter == SeqsUpTo(n - 1)
         IN shorter \cup { Append(q, x) : q \in shorter, x \in Items }

Fragments(k) == [i \in 1..k |-> Object(<<"a">>, FALSE)]

\* the response bodies a stream call can meet
Upstreams ==
    SeqsUpTo(MaxUpstream)
    \cup { Fragments(k) \o t : k \in ResponseChanCap..MaxFragments,
                               t \in { <<>>, <<Object(<<>>, TRUE)>>, <<BadObject>> } }

chanU == UNCHANGED <<responseChan, errorChan, responseClosed, errorClosed>>
relayU == UNCHANGED <<hPc, events>>

\* errorChan <- err
SendError ==
    /\ Len(errorChan) < ErrorChanCap
    /\ errorChan' = Append(errorChan, "err")
    /\ errSent' = errSent + 1

\* client.Post: a transport error or a status other than 200 is sent as the error
ProducerPost ==
    /\ sPc = "post"
    /\ \E outcome \in {"ok", "postError", "badStatus"} :
         IF outcome = "ok"
         THEN /\ sPc' = "loop"
              /\ UNCHANGED <<errorChan, errSent>>
         ELSE /\ SendError
              /\ sPc' = "closeError"
    /\ UNCHANGED <<upstream, fullResponse, responseChan, responseClosed, errorClosed,
                   sent, finalSent>>
    /\ relayU /\ UNCHANGED body
    /\ UNCHANGED <<lifeVars, probeVars, nameVars, listVars>>

\* decoder.More() is false: the body has ended (or can no longer be read)
ProducerEnd ==
    /\ sPc = "loop"
    /\ upstream = <<>>
    /\ sPc' = "final"
    /\ UNCHANGED <<upstream, fullResponse, sent, errSent, finalSent>>
    /\ chanU /\ relayU /\ UNCHANGED body
    /\ UNCHANGED <<lifeVars, probeVars, nameVars, listVars>>

\* (mutant) a decode failure after which the goroutine goes on to the final send
AfterDecodeErrorGoesOn == "final"

\* where the goroutine goes after sending a decode failure: it returns
AfterDecodeError == "closeError"

\* decoder.Decode fails: the error is sent and the goroutine returns
ProducerDecodeError ==
    /\ sPc = "loop"
    /\ upstream # <<>>
    /\ Head(upstream).bad
    /\ SendError
    /\ upstream' = Tail(upstream)
    /\ sPc' = AfterDecodeError
    /\ UNCHANGED <<fullResponse, responseChan, responseClosed, errorClosed, sent, finalSent>>
    /\ relayU /\ UNCHANGED body
    /\ UNCHANGED <<lifeVars, probeVars, nameVars, listVars>>

\* an object with an empty response field is not forwarded
ProducerSkip ==
    /\ sPc = "loop"
    /\ upstream # <<>>
    /\ ~Head(upstream).bad
    /\ Head(upstream).response = <<>>
    /\ upstream' = Tail(upstream)
    /\ sPc' = IF Head(upstream).done THEN "final" ELSE "loop"
    /\ UNCHANGED <<fullResponse, sent, errSent, finalSent>>
    /\ chanU /\ relayU /\ UNCHANGED body
    /\ UNCHANGED <<lifeVars, probeVars, nameVars, listVars>>

\* (mutant) a loop that does not leave at the completion marker of a fragment
ProducerForwardNoBreak ==
    /\ sPc = "loop"
    /\ upstream # <<>>
    /\ ~Head(upstream).bad
    /\ Head(upstream).response # <<>>
    /\ Len(responseChan) < ResponseChanCap
    /\ fullResponse' = fullResponse \o Head(upstream).response
    /\ responseChan' = Append(responseChan, Head(upstream).response)
    /\ sent' = Append(sent, Head(upstream).response)
    /\ upstream' = Tail(upstream)
    /\ sPc' = "loop"
    /\ UNCHANGED <<errorChan, responseClosed, errorClosed, errSent, finalSent>>
    /\ relayU /\ UNCHANGED body
    /\ UNCHANGED <<lifeVars, probeVars, nameVars, listVars>>

\* a fragment is added to the full text and sent; the send waits for room
ProducerForward ==
    /\ sPc = "loop"
    /\ upstream # <<>>
    /\ ~Head(upstream).bad
    /\ Head(upstream).response # <<>>
    /\ Len(responseChan) < ResponseChanCap
    /\ fullResponse' = fullResponse \o Head(upstream).response
    /\ responseChan' = Append(responseChan, Head(upstream).response)
    /\ sent' = Append(sent, Head(upstream).response)
    /\ upstream' = Tail(upstream)
    /\ sPc' = IF Head(upstream).done THEN "final" ELSE "loop"
    /\ UNCHANGED <<errorChan, responseClosed, errorClosed, errSent, finalSent>>
    /\ relayU /\ UNCHANGED body
    /\ UNCHANGED <<lifeVars, probeVars, nameVars, listVars>>

\* responseChan <- fullResponse.String(), then the goroutine returns
ProducerFinal ==
    /\ sPc = "final"
    /\ Len(responseChan) < ResponseChanCap
    /\ responseChan' = Append(responseChan, fullResponse)
    /\ sent' = Append(sent, fullResponse)
    /\ finalSent' = finalSent + 1
    /\ sPc' = "closeError"
    /\ UNCHANGED <<upstream, fullResponse, errorChan, responseClosed, errorClosed, errSent>>
    /\ relayU /\ UNCHANGED body
    /\ UNCHANGED <<lifeVars, probeVars, nameVars, listVars>>

\* the deferred close(errorChan) runs first (deferred last)
ProducerCloseError ==
    /\ sPc = "closeError"
    /\ errorClosed' = TRUE
    /\ sPc' = "closeResponse"
    /\ UNCHANGED <<upstream, fullResponse, responseChan, errorChan, responseClosed,
                   sent, errSent, finalSent>>
    /\ relayU /\ UNCHANGED body
    /\ UNCHANGED <<lifeVars, probeVars, nameVars, listVars>>

\* the deferred close(responseChan) runs after it
ProducerCloseResponse ==
    /\ sPc = "closeResponse"
    /\ responseClosed' = TRUE
    /\ sPc' = "returned"
    /\ UNCHANGED <<upstream, fullResponse, responseChan, errorChan, errorClosed,
                   sent, errSent, finalSent>>
    /\ relayU /\ UNCHANGED body
    /\ UNCHANGED <<lifeVars, probeVars, nameVars, listVars>>

producerU == UNCHANGED <<sPc, upstream, fullResponse, sent, errSent, finalSent, body>>

\* (mutant) a handler that returns after the first value it receives
RelayReceiveOnce ==
    /\ hPc = "select"
    /\ responseChan # <<>>
    /\ responseChan' = Tail(responseChan)
    /\ events' = IF Head(responseChan) # <<>>
                 THEN Append(events, [event |-> "data", data |-> Head(responseChan)])
                 ELSE events
    /\ hPc' = "returned"
    /\ UNCHANGED <<errorChan, responseClosed, errorClosed>>
    /\ producerU
    /\ UNCHANGED <<lifeVars, probeVars, nameVars, listVars>>

\* case response, ok := <-responseChan with a value: a data event unless it is empty
RelayReceive ==
    /\ hPc = "select"
    /\ responseChan # <<>>
    /\ responseChan' = Tail(responseChan)
    /\ events' = IF Head(responseChan) # <<>>
                 THEN Append(events, [event |-> "data", data |-> Head(responseChan)])
                 ELSE events
    /\ UNCHANGED <<hPc, errorChan, responseClosed, errorClosed>>
    /\ producerU
    /\ UNCHANGED <<lifeVars, probeVars, nameVars, listVars>>

\* case response, ok := <-responseChan with ok false: the handler returns
RelayResponseClosed ==
    /\ hPc = "select"
    /\ responseChan = <<>>
    /\ responseClosed
    /\ hPc' = "returned"
    /\ UNCHANGED events
    /\ chanU /\ producerU
    /\ UNCHANGED <<lifeVars, probeVars, nameVars, listVars>>

\* case err := <-errorChan with an error: an error event, and the handler returns
RelayError ==
    /\ hPc = "select"
    /\ errorChan # <<>>
    /\ errorChan' = Tail(errorChan)
    /\ events' = Append(events, [event |-> "error", data |-> <<>>])
    /\ hPc' = "returned"
    /\ UNCHANGED <<responseChan, responseClosed, errorClosed>>
    /\ producerU
    /\ UNCHANGED <<lifeVars, probeVars, nameVars, listVars>>

\* case err := <-errorChan on the closed channel: err is nil, and the handler returns
RelayErrorClosed ==
    /\ hPc = "select"
    /\ errorChan = <<>>
    /\ errorClosed
    /\ hPc' = "returned"
    /\ UNCHANGED events
    /\ chanU /\ producerU
    /\ UNCHANGED <<lifeVars, probeVars, nameVars, listVars>>

\* the call has made its channels and started the goroutine; the handler enters its loop
InitStream ==
    /\ InitLife /\ units = <<>>
    /\ ProbeIdle /\ NamesIdle /\ ListIdle
    /\ sPc = "post" /\ hPc = "select"
    /\ upstream \in Upstreams
    /\ body = upstream
    /\ fullResponse = <<>>
    /\ responseChan = <<>> /\ errorChan = <<>>
    /\ responseClosed = FALSE /\ errorClosed = FALSE
    /\ sent = <<>> /\ errSent = 0 /\ finalSent = 0
    /\ events = <<>>

NextStream ==
    \/ ProducerPost \/ ProducerEnd \/ ProducerDecodeError \/ ProducerSkip
    \/ ProducerForward \/ ProducerFinal
    \/ ProducerCloseError \/ ProducerCloseResponse
    \/ RelayReceive \/ RelayResponseClosed \/ RelayError \/ RelayErrorClosed

SpecStream == InitStream /\ [][NextStream]_vars

\* the steps of the producer goroutine
Producer ==
    \/ ProducerPost \/ ProducerEnd \/ ProducerDecodeError \/ ProducerSkip
    \/ ProducerForward \/ ProducerFinal
    \/ ProducerCloseError \/ ProducerCloseResponse

\* the select of the handler's loop
RelayLoop == RelayReceive \/ RelayResponseClosed \/ RelayError \/ RelayErrorClosed

\* One streaming request with a finite upstream body under fair scheduling: the Go
\* scheduler runs a goroutine that can take a step, so the producer goes on
\* whenever its send has room (or it has nothing to wait for), and the handler's
\* select fires whenever one of its cases is ready.
SpecStreamLive == InitStream /\ [][NextStream]_vars /\ WF_vars(Producer) /\ WF_vars(RelayLoop)

----------------------------------------------------------------------------
(* backend/main.go: the single-file server (createDockerfileHandler, chatHandler, *)
(* healthHandler) on currentModel and modelMutex                                 *)

\* fmt.Sprintf("ollama-%s-container", strings.ToLower(req.Model))
MainContainerName(m) == OllamaPrefix \o ToLower(m) \o ContainerSuffix

\* fmt.Sprintf("ollama-%s", strings.ToLower(req.Model))
MainImageName(m) == OllamaPrefix \o ToLower(m)

MainOps == {"create", "mchat", "mhealth"}

MainInputs(o) ==
    CASE o = "create" -> RawNames
      [] o = "mchat" -> Messages
      [] OTHER -> { <<>> }

\* c.ShouldBindJSON with binding:"required"
MainFirstStep(o, a) ==
    CASE o = "create" -> IF a = <<>> THEN "done" ELSE "m_rlock"
      [] o = "mchat" -> IF a = <<>> THEN "done" ELSE "mc_rlock"
      [] OTHER -> "mh_rlock"

\* gin dispatches a request to its handler on a task of its own
MainBegin(p) ==
    /\ At(p, "idle")
    /\ p = FirstIdle
    /\ started < MaxOps
    /\ \E o \in MainOps : \E a \in MainInputs(o) :
         /\ op' = [op EXCEPT ![p] = o]
         /\ arg' = [arg EXCEPT ![p] = a]
         /\ pc' = [pc EXCEPT ![p] = MainFirstStep(o, a)]
         /\ result' = [result EXCEPT ![p] =
                          IF MainFirstStep(o, a) = "done" THEN "badRequest" ELSE "none"]
         /\ lastFailed' = {}
    /\ started' = started + 1
    /\ calls' = [calls EXCEPT ![p] = <<>>]
    /\ local' = [local EXCEPT ![p] = <<>>]
    /\ recBefore' = [recBefore EXCEPT ![p] = currentModel]
    /\ UNCHANGED seen
    /\ solo' = [q \in Procs |->
                  IF q = p THEN \A r \in Procs \ {p} : ~InFlight(r)
                  ELSE IF InFlight(q) THEN FALSE ELSE solo[q]]
    /\ prevOk' = [prevOk EXCEPT ![p] = lastActivated]
    /\ lastActivated' = {}
    /\ UNCHANGED <<currentModel, rlock, wlock, units, images, dockerfile>>
    /\ NoAccess
    /\ UNCHANGED <<probeVars, streamVars, nameVars, listVars>>

MainRLock(p) == AcquireShared(p, "m_rlock", "m_check")

\* the already-running test under the shared lock, then RUnlock on either branch
MainCheck(p) ==
    /\ At(p, "m_check")
    /\ racy' = ReadRecord(p, "createDockerfileHandler:84")
    /\ Seen(p)
    /\ rlock' = rlock \ {p}
    /\ IF AlreadyRunning(currentModel, arg[p])
       THEN Continue(p, "m_fastresp")
       ELSE Continue(p, "m_exists")
    /\ UNCHANGED <<currentModel, wlock, local, calls>>
    /\ runtimeU /\ histS /\ otherU

\* the already-running response: currentModel is read after RUnlock
MainFastResponse(p) ==
    /\ At(p, "m_fastresp")
    /\ racy' = ReadRecord(p, "createDockerfileHandler:89")
    /\ Finish(p, "alreadyExists")
    /\ UNCHANGED <<currentModel, local, calls>>
    /\ lockU /\ runtimeU /\ histU /\ otherU

\* containerExists: false also when the listing command fails
MainContainerExists(p) ==
    /\ At(p, "m_exists")
    /\ \E listed \in BOOLEAN :
         LET found == listed /\ UnitListed(MainContainerName(arg[p]))
         IN /\ Call(p, "unitExists", found)
            /\ Continue(p, IF found THEN "m_start" ELSE "m_stop")
    /\ UNCHANGED <<currentModel, local>>
    /\ NoAccess
    /\ lockU /\ runtimeU /\ histU /\ otherU

\* startExistingContainer
MainStartExisting(p) ==
    /\ At(p, "m_start")
    /\ \E ok \in BOOLEAN :
         LET started_ok == ok /\ UnitListed(MainContainerName(arg[p]))
         IN /\ Call(p, "startExisting", started_ok)
            /\ IF started_ok
               THEN /\ units' = StartUnit(units, MainContainerName(arg[p]))
                    /\ Continue(p, "m_plock")
               ELSE /\ UNCHANGED units
                    /\ Continue(p, "m_stop")
    /\ UNCHANGED <<currentModel, local, images, dockerfile>>
    /\ NoAccess
    /\ lockU /\ histU /\ otherU

MainProvisionalLock(p) == AcquireExclusive(p, "m_plock", "m_ppub")

\* the record of the started unit, then Unlock
MainProvisionalPublish(p) ==
    /\ At(p, "m_ppub")
    /\ racy' = WriteRecord(p, "createDockerfileHandler:103")
    /\ currentModel' = Published(MainContainerName(arg[p]))
    /\ wlock' = wlock \ {p}
    /\ Call(p, "publish", TRUE)
    /\ Continue(p, "m_probe30")
    /\ UNCHANGED <<rlock, local>>
    /\ runtimeU /\ histU /\ otherU

\* waitForModelReady(containerName, 30s)
MainShortProbe(p) ==
    /\ At(p, "m_probe30")
    /\ \E ok \in BOOLEAN :
         LET ready == ok /\ UnitUp(MainContainerName(arg[p]))
         IN /\ Call(p, "probe30", ready)
            /\ IF ready THEN Finish(p, "alreadyExists") ELSE Continue(p, "m_stop")
    /\ UNCHANGED <<currentModel, local>>
    /\ NoAccess
    /\ lockU /\ runtimeU /\ histU /\ otherU

\* stopCurrentModel: modelMutex.Lock(), the unlock deferred
MainStopLock(p) == AcquireExclusive(p, "m_stop", "m_stoptest")

\* stopCurrentModel: the test of the record; a record not running is left alone
MainStopTest(p) ==
    /\ At(p, "m_stoptest")
    /\ racy' = ReadRecord(p, "stopCurrentModel:291")
    /\ IF currentModel.IsRunning /\ currentModel.Name # <<>>
       THEN /\ Continue(p, "m_stoprm")
            /\ UNCHANGED wlock
       ELSE /\ Continue(p, "m_write")
            /\ wlock' = wlock \ {p}
    /\ UNCHANGED <<currentModel, rlock, local, calls>>
    /\ runtimeU /\ histU /\ otherU

\* stopCurrentModel: `docker rm -f <current unit>` (result ignored) under the lock,
\* then IsRunning = false and the deferred Unlock
MainStopRemove(p) ==
    /\ At(p, "m_stoprm")
    /\ racy' = ReadRecord(p, "stopCurrentModel:293")
                    \cup WriteRecord(p, "stopCurrentModel:295")
    /\ \E ok \in BOOLEAN :
         /\ Call(p, "removeUnit", ok)
         /\ units' = IF ok THEN RemoveUnit(units, currentModel.Name) ELSE units
    /\ currentModel' = [currentModel EXCEPT !.IsRunning = FALSE]
    /\ wlock' = wlock \ {p}
    /\ Continue(p, "m_write")
    /\ UNCHANGED <<rlock, local, images, dockerfile>>
    /\ histU /\ otherU

\* generateDockerfile, os.MkdirAll, os.WriteFile of /app/models/Dockerfile
MainWriteDockerfile(p) ==
    /\ At(p, "m_write")
    /\ \E outcome \in {"ok", "mkdirError", "writeError"} :
         IF outcome = "ok"
         THEN /\ dockerfile' = {ToLower(arg[p])}
              /\ Continue(p, "m_build")
         ELSE /\ UNCHANGED dockerfile
              /\ Finish(p, outcome)
    /\ UNCHANGED <<currentModel, local, calls, units, images>>
    /\ NoAccess
    /\ lockU /\ histU /\ otherU

\* buildDockerImage(modelsDir, imageName)
MainBuild(p) ==
    /\ At(p, "m_build")
    /\ \E ok \in BOOLEAN :
         /\ Call(p, "build", ok)
         /\ IF ok
            THEN /\ images' = {i \in images : i.name # MainImageName(arg[p])}
                                \cup {[name |-> MainImageName(arg[p]), pulls |-> dockerfile]}
                 /\ Continue(p, "m_run")
            ELSE /\ UNCHANGED images
                 /\ Finish(p, "buildError")
    /\ UNCHANGED <<currentModel, local, units, dockerfile>>
    /\ NoAccess
    /\ lockU /\ histU /\ otherU

\* runDockerContainer: `docker rm -f` (result ignored), then `docker run`
MainRun(p) ==
    /\ At(p, "m_run")
    /\ \E removed \in BOOLEAN, ok \in BOOLEAN :
         LET name == MainContainerName(arg[p])
             base == IF removed THEN RemoveUnit(units, name) ELSE units
             free == \A i \in 1..Len(base) : base[i].name # name
             have == \E i \in images : i.name = MainImageName(arg[p])
             ran == ok /\ free /\ have
         IN /\ Call(p, "run", ran)
            /\ IF ran
               THEN /\ units' = <<[name |-> name, up |-> TRUE]>> \o base
                    /\ Continue(p, "m_lock")
               ELSE /\ units' = base
                    /\ Finish(p, "runError")
    /\ UNCHANGED <<currentModel, local, images, dockerfile>>
    /\ NoAccess
    /\ lockU /\ histU /\ otherU

MainPublishLock(p) == AcquireExclusive(p, "m_lock", "m_pub")

\* the new current record, then Unlock
MainPublish(p) ==
    /\ At(p, "m_pub")
    /\ racy' = WriteRecord(p, "createDockerfileHandler:160")
    /\ currentModel' = Published(MainContainerName(arg[p]))
    /\ wlock' = wlock \ {p}
    /\ Call(p, "publish", TRUE)
    /\ Continue(p, "m_probe300")
    /\ UNCHANGED <<rlock, local>>
    /\ runtimeU /\ histU /\ otherU

\* waitForModelReady(containerName, 300s)
MainLongProbe(p) ==
    /\ At(p, "m_probe300")
    /\ \E ok \in BOOLEAN :
         LET ready == ok /\ UnitUp(MainContainerName(arg[p]))
         IN /\ Call(p, "probe300", ready)
            /\ Finish(p, IF ready THEN "created" ELSE "startError")
    /\ UNCHANGED <<currentModel, local>>
    /\ NoAccess
    /\ lockU /\ runtimeU /\ histU /\ otherU

createDockerfileHandler(p) ==
    \/ MainRLock(p) \/ MainCheck(p) \/ MainFastResponse(p)
    \/ MainContainerExists(p) \/ MainStartExisting(p)
    \/ MainProvisionalLock(p) \/ MainProvisionalPublish(p) \/ MainShortProbe(p)
    \/ MainStopLock(p) \/ MainStopTest(p) \/ MainStopRemove(p)
    \/ MainWriteDockerfile(p) \/ MainBuild(p) \/ MainRun(p)
    \/ MainPublishLock(p) \/ MainPublish(p) \/ MainLongProbe(p)

MainChatRLock(p) == AcquireShared(p, "mc_rlock", "mc_check")
MainChatCheck(p) == RelayCheck(p, "mc_check", "mc_infer", "chatHandler:189")
MainChatInfer(p) == RelayInfer(p, "mc_infer", "response", "inferError")

chatHandler(p) == MainChatRLock(p) \/ MainChatCheck(p) \/ MainChatInfer(p)

MainHealthRLock(p) == AcquireShared(p, "mh_rlock", "mh_read")

\* the status response under the shared lock, then the deferred RUnlock
MainHealthRead(p) ==
    /\ At(p, "mh_read")
    /\ racy' = ReadRecord(p, "healthHandler:219")
    /\ Seen(p)
    /\ rlock' = rlock \ {p}
    /\ Finish(p, "healthy")
    /\ UNCHANGED <<currentModel, wlock, local, calls>>
    /\ runtimeU /\ histS /\ otherU

healthHandler(p) == MainHealthRLock(p) \/ MainHealthRead(p)

InitMain == InitLife /\ ProbeIdle /\ StreamIdle /\ NamesIdle /\ ListIdle

NextMain ==
    \E p \in Procs :
        \/ MainBegin(p)
        \/ createDockerfileHandler(p)
        \/ chatHandler(p)
        \/ healthHandler(p)
        \/ Return(p)

SpecMain == InitMain /\ [][NextMain]_vars

----------------------------------------------------------------------------
(* The names derived from one raw model name: by CreateModel, by the delete      *)
(* handler, by DockerService.DeleteModel, by GenerateDockerfile and by the       *)
(* inference client                                                              *)

\* length of the raw names drawn character by character
MaxNameLen == 3

NameChars == {"L", "a", ":", "/"}

Llama2Tagged == <<"L", "l", "a", "m", "a", "2", ":", "1", "3", "B">>
CodeLlama == <<"C", "o", "d", "e", "/", "L", "l", "a", "m", "a">>

RECURSIVE NamesUpTo(_)
NamesUpTo(n) ==
    IF n = 0 THEN { <<>> }
    ELSE LET shorter == NamesUpTo(n - 1)
         IN shorter \cup { Append(q, c) : q \in shorter, c \in NameChars }

\* the non-empty raw names a request can carry
ModelNames == (NamesUpTo(MaxNameLen) \ { <<>> }) \cup {Llama2Tagged, CodeLlama}

namesU == UNCHANGED <<lifeVars, probeVars, streamVars, listVars>>

\* CreateModel: imageName, containerName and the Dockerfile it writes
NameActivate ==
    /\ "activate" \notin nDone
    /\ nDone' = nDone \cup {"activate"}
    /\ nImage' = ImageName(nRaw)
    /\ nUnit' = ImageName(nRaw) \o ContainerSuffix
    /\ nPull' = GenerateDockerfile(nRaw)
    /\ UNCHANGED <<nRaw, nDelUnit, nDelImage, nDelCurrent, nModel>>
    /\ namesU

\* DockerService.DeleteModel: the unit and the image it removes
NameDriverDelete ==
    /\ "activate" \in nDone /\ "driverDelete" \notin nDone
    /\ nDone' = nDone \cup {"driverDelete"}
    /\ nDelUnit' = DriverContainerName(nRaw)
    /\ nDelImage' = DriverImageName(nRaw)
    /\ UNCHANGED <<nRaw, nUnit, nImage, nPull, nDelCurrent, nModel>>
    /\ namesU

\* the delete handler: the name it compares the current record with
NameHandlerDelete ==
    /\ "activate" \in nDone /\ "handlerDelete" \notin nDone
    /\ nDone' = nDone \cup {"handlerDelete"}
    /\ nDelCurrent' = DeleteHandlerContainerName(nRaw)
    /\ UNCHANGED <<nRaw, nUnit, nImage, nPull, nDelUnit, nDelImage, nModel>>
    /\ namesU

\* OllamaService: the model name of the request sent to the unit
NameInfer ==
    /\ "activate" \in nDone /\ "infer" \notin nDone
    /\ nDone' = nDone \cup {"infer"}
    /\ nModel' = ModelNameOf(nUnit)
    /\ UNCHANGED <<nRaw, nUnit, nImage, nPull, nDelUnit, nDelImage, nDelCurrent>>
    /\ namesU

InitNames ==
    /\ InitLife /\ units = <<>>
    /\ ProbeIdle /\ StreamIdle /\ ListIdle
    /\ nDone = {} /\ nRaw \in ModelNames
    /\ nUnit = <<>> /\ nImage = <<>> /\ nPull = <<>>
    /\ nDelUnit = <<>> /\ nDelImage = <<>> /\ nDelCurrent = <<>> /\ nModel = <<>>

NextNames == NameActivate \/ NameDriverDelete \/ NameHandlerDelete \/ NameInfer

SpecNames == InitNames /\ [][NextNames]_vars

----------------------------------------------------------------------------
(* DockerService.GetInstalledModels: one call, on the text `docker ps -a` prints *)

\* units the runtime holds at the call
MaxRows == 2

\* names of units: one of the convention, one foreign, one foreign that contains
\* both markers of the convention
ListedNames ==
    { <<"o", "l", "l", "a", "m", "a", "-", "a", "-", "c", "o", "n", "t", "a", "i", "n", "e", "r">>,
      <<"w", "e", "b">>,
      <<"m", "y", "-", "o", "l", "l", "a", "m", "a", "-", "a", "-", "c", "o", "n", "t", "a", "i", "n", "e", "r">> }

\* the {{.Status}} and {{.Ports}} columns
Statuses == { <<"U", "p", " ", "1", "h">>, <<"E", "x", "i", "t", "e", "d">>, <<"C", "r", "e", "a", "t", "e", "d">> }
PortColumns == { <<>>, <<"1", "1", "4", "3", "4">> }

Rows == [name : ListedNames, status : Statuses, ports : PortColumns]

RECURSIVE RowsUpTo(_)
RowsUpTo(n) ==
    IF n = 0 THEN { <<>> }
    ELSE LET shorter == RowsUpTo(n - 1)
         IN shorter \cup { Append(r, x) : r \in shorter, x \in Rows }

\* --format "{{.Names}}\t{{.Status}}\t{{.Ports}}": one line per unit
FormatLine(row) == row.name \o <<"\t">> \o row.status \o <<"\t">> \o row.ports

RECURSIVE PsOutput(_)
PsOutput(rows) ==
    IF rows = <<>> THEN <<>>
    ELSE FormatLine(Head(rows)) \o <<"\n">> \o PsOutput(Tail(rows))

\* strings.Split(s, sep) for a one-character sep
RECURSIVE Split(_, _)
Split(s, sep) ==
    IF \A i \in 1..Len(s) : s[i] # sep
    THEN << s >>
    ELSE LET k == CHOOSE i \in 1..Len(s) : s[i] = sep /\ \A j \in 1..(i - 1) : s[j] # sep
         IN << SubSeq(s, 1, k - 1) >> \o Split(SubSeq(s, k + 1, Len(s)), sep)

\* the test of a line, and of its columns
LineKept(line) ==
    /\ Contains(line, OllamaPrefix)
    /\ Contains(line, ContainerSuffix)
    /\ Len(Split(line, "\t")) >= 3

\* the models.InstalledModel built of a kept line
InstalledModel(line) ==
    LET parts == Split(line, "\t")
    IN [ Name |-> TrimSuffix(TrimPrefix(parts[1], OllamaPrefix), ContainerSuffix),
         ContainerName |-> parts[1],
         Status |-> parts[2],
         Ports |-> parts[3],
         IsRunning |-> Contains(parts[2], <<"U", "p">>) ]

\* cmd.Output(): an error is returned as it is; else the output is split in lines
ListRun ==
    /\ lPc = "run"
    /\ \E ok \in BOOLEAN :
         IF ok
         THEN /\ lLines' = Split(PsOutput(lRows), "\n")
              /\ lPc' = "loop"
              /\ UNCHANGED lErr
         ELSE /\ lErr' = TRUE
              /\ lPc' = "done"
              /\ UNCHANGED lLines
    /\ UNCHANGED <<lRows, lOut>>
    /\ UNCHANGED <<lifeVars, probeVars, streamVars, nameVars>>

\* a line that passes the test is appended as a descriptor
ListKeep ==
    /\ lPc = "loop"
    /\ lLines # <<>>
    /\ LineKept(Head(lLines))
    /\ lOut' = Append(lOut, InstalledModel(Head(lLines)))
    /\ lLines' = Tail(lLines)
    /\ UNCHANGED <<lRows, lPc, lErr>>
    /\ UNCHANGED <<lifeVars, probeVars, streamVars, nameVars>>

\* any other line is passed over
ListSkip ==
    /\ lPc = "loop"
    /\ lLines # <<>>
    /\ ~LineKept(Head(lLines))
    /\ lLines' = Tail(lLines)
    /\ UNCHANGED <<lRows, lPc, lOut, lErr>>
    /\ UNCHANGED <<lifeVars, probeVars, streamVars, nameVars>>

\* return installedModels, nil
ListReturn ==
    /\ lPc = "loop"
    /\ lLines = <<>>
    /\ lPc' = "done"
    /\ UNCHANGED <<lRows, lLines, lOut, lErr>>
    /\ UNCHANGED <<lifeVars, probeVars, streamVars, nameVars>>

InitList ==
    /\ InitLife /\ units = <<>>
    /\ ProbeIdle /\ StreamIdle /\ NamesIdle
    /\ lRows \in RowsUpTo(MaxRows)
    /\ lPc = "run" /\ lLines = <<>> /\ lOut = <<>> /\ lErr = FALSE

NextList == ListRun \/ ListKeep \/ ListSkip \/ ListReturn

SpecList == InitList /\ [][NextList]_vars

----------------------------------------------------------------------------
(* Properties of Spec *)

CallNames(p) == [i \in 1..Len(calls[p]) |-> calls[p][i].call]

Called(p, c) == \E i \in 1..Len(calls[p]) : calls[p][i].call = c

IsPrefix(a, b) == Len(a) <= Len(b) /\ SubSeq(b, 1, Len(a)) = a

Done(p, o) == pc[p] = "done" /\ op[p] = o

\* the activation found no unit of its name
NoUnitFound(p) ==
    /\ op[p] = "activate"
    /\ calls[p] # <<>>
    /\ calls[p][1] = [call |-> "unitExists", ok |-> FALSE]

\* C1: an activation that finds no unit of its name calls build, run and the long
\* probe in that order, each only after the one before succeeded; it publishes the
\* record as running between the successful run and the probe, and never when build
\* or run failed.
C1_BuildRunPublishProbe ==
    \A p \in Procs :
        NoUnitFound(p) =>
            /\ IsPrefix(CallNames(p), <<"unitExists", "build", "run", "publish", "probe300">>)
            /\ \A i \in 2..(Len(calls[p]) - 1) : calls[p][i].ok
            /\ result[p] \in {"mkdirError", "writeError", "buildError", "runError"}
                   => ~Called(p, "publish")
            /\ result[p] \in {"created", "startError"} => Len(calls[p]) = 5
            /\ solo[p] /\ ~Called(p, "publish")
                   => currentModel \in {recBefore[p], StoppedModel(recBefore[p])}
            /\ solo[p] /\ Called(p, "publish")
                   => currentModel = Published(ContainerName(arg[p]))

C1_Witness ==
    \E p \in Procs :
        /\ NoUnitFound(p) /\ Done(p, "activate") /\ result[p] = "created"
        /\ currentModel = Published(ContainerName(arg[p]))

\* C2: after a successful activate(m) with nothing in between, activate(m') for a
\* name m' of the same safe name answers alreadyExists and calls neither build nor run.
C2_SecondActivateReuses ==
    \A p \in Procs :
        ( /\ Done(p, "activate")
          /\ solo[p]
          /\ \E m \in prevOk[p] : SafeModelName(m) = SafeModelName(arg[p]) )
        => /\ result[p] = "alreadyExists"
           /\ ~Called(p, "build")
           /\ ~Called(p, "run")

\* C3: a chat or stream request whose test reads a record that is not running has
\* answered with the no-model-active error and has made no driver, probe or
\* inference call.
C3_NotRunningNoCalls ==
    \A p \in Procs :
        ( /\ op[p] \in {"chat", "stream"}
          /\ pc[p] \in {"c_infer", "s_infer", "done"}
          /\ arg[p] # <<>>
          /\ ~seen[p].IsRunning )
        => /\ pc[p] = "done"
           /\ result[p] = "noModel"
           /\ calls[p] = <<>>

C3_Witness ==
    \E p \in Procs :
        /\ pc[p] = "done" /\ op[p] \in {"chat", "stream"}
        /\ result[p] = "noModel"
        /\ seen[p].Name # <<>> /\ ~seen[p].IsRunning

\* C7: a successful deleteModel(m) with nothing in between leaves the empty record
\* if the record named the unit of m, and the record as it was otherwise.
C7_DeleteResetsOnlyCurrent ==
    \A p \in Procs :
        (Done(p, "delete") /\ result[p] = "deleted" /\ solo[p])
        => currentModel = IF recBefore[p].Name = ContainerName(arg[p])
                          THEN EmptyModel
                          ELSE recBefore[p]

C7_Witness ==
    \E p \in Procs :
        /\ Done(p, "delete") /\ result[p] = "deleted" /\ solo[p]
        /\ recBefore[p] = Published(ContainerName(arg[p]))
        /\ currentModel = EmptyModel

\* C10: every read and every write of the current model record is made by a
\* handler that holds the lock (shared or exclusive to read, exclusive to write).
C10_AccessesUnderLock == racy = {}

\* positions at which a handler is making a driver, probe or inference call
CallPositions ==
    { "a_exists", "a_start", "a_probe30", "a_build", "a_run", "a_probe300",
      "d_rm", "d_rmi", "r_list", "c_infer", "s_infer",
      "m_exists", "m_start", "m_probe30", "m_stoprm", "m_build", "m_run",
      "m_probe300", "mc_infer" }

HoldsLock(p) == p \in rlock \/ p \in wlock

\* C11: no handler holds the lock, shared or exclusive, while a driver invocation,
\* a readiness probe or an inference call it makes is in progress.
C11_NoLockAcrossCalls ==
    \A p \in Procs : pc[p] \in CallPositions => ~HoldsLock(p)

\* C12: a handler that has returned, on a success or a failure path, holds neither
\* the shared nor the exclusive lock; with no handler running the lock is free.
C12_ReturnedHoldsNoLock ==
    /\ \A p \in Procs : pc[p] \in {"done", "idle"} => ~HoldsLock(p)
    /\ (\A p \in Procs : ~InFlight(p)) => rlock = {} /\ wlock = {}

\* a failure return after the handler took and released the lock
C12_Witness ==
    \E p \in Procs :
        /\ pc[p] = "done"
        /\ result[p] \in {"noModel", "startError", "runError", "buildError"}
        /\ rlock = {} /\ wlock = {}


RunningIn(listing) == { i \in 1..Len(listing) : listing[i].IsRunning }

\* C15: after a resync whose listing succeeded the record is the first listed unit
\* reported running, with port 11434 and running, or the empty record if none is
\* running, whatever it was before; after a resync whose listing failed an error
\* is returned, no other call was made and the record is as it was.
C15_ResyncRepublishes ==
    \A p \in Procs :
        Done(p, "resync") =>
            /\ result[p] \in {"refreshed", "noneRunning", "listError"}
            /\ result[p] = "refreshed" =>
                  /\ RunningIn(local[p]) # {}
                  /\ \E i \in RunningIn(local[p]) :
                        /\ \A j \in RunningIn(local[p]) : i <= j
                        /\ currentModel = [Name |-> local[p][i].ContainerName,
                                           Port |-> "11434", IsRunning |-> TRUE]
            /\ result[p] = "noneRunning" =>
                  RunningIn(local[p]) = {} /\ currentModel = EmptyModel
            /\ result[p] # "listError" => calls[p] = <<[call |-> "listUnits", ok |-> TRUE]>>
            /\ result[p] = "listError" =>
                  /\ calls[p] = <<[call |-> "listUnits", ok |-> FALSE]>>
                  /\ solo[p] => currentModel = recBefore[p]

\* a resync that replaced a running record by the first of two running units
C15_Witness ==
    \E p \in Procs :
        /\ Done(p, "resync") /\ result[p] = "refreshed"
        /\ Cardinality(RunningIn(local[p])) = 2
        /\ currentModel # recBefore[p]
        /\ currentModel.Name = local[p][1].ContainerName

\* C16: an activate whose long probe timed out returns a start error and, with no
\* other request interleaved, leaves the record published as running for the new
\* unit; a chat or stream that follows is relayed to that unit.
C16_NoRollbackOnProbeTimeout ==
    /\ \A p \in Procs :
          (Done(p, "activate") /\ result[p] = "startError") =>
             /\ calls[p][Len(calls[p])] = [call |-> "probe300", ok |-> FALSE]
             /\ solo[p] => /\ currentModel = Published(ContainerName(arg[p]))
                           /\ lastFailed = {currentModel.Name}
    /\ \A p \in Procs :
          ( /\ op[p] \in {"chat", "stream"} /\ arg[p] # <<>> /\ solo[p]
            /\ lastFailed # {}
            /\ pc[p] \in {"c_infer", "s_infer", "done"} )
          => /\ local[p] \in lastFailed
             /\ pc[p] = "done" => Called(p, "infer")

\* a chat relayed to the unit of the activate that has just failed its long probe
C16_Witness ==
    \E p \in Procs :
        /\ Done(p, "chat") /\ solo[p] /\ result[p] = "response"
        /\ lastFailed = {local[p]}
        /\ currentModel = Published(local[p])

\* C17: a request without its required input (activate without model, chat or
\* stream without message, delete with an empty name) is answered with an error
\* at once: no driver, probe or inference call, no lock taken, the record unchanged.
C17_MissingInputRejected ==
    \A p \in Procs :
        (op[p] \in {"activate", "delete", "chat", "stream"} /\ arg[p] = <<>>)
        => /\ pc[p] = "done"
           /\ result[p] = "badRequest"
           /\ calls[p] = <<>>
           /\ ~HoldsLock(p)
           /\ currentModel = recBefore[p]

\* a delete with an empty name rejected while the record is running
C17_Witness ==
    \E p \in Procs :
        /\ Done(p, "delete") /\ arg[p] = <<>> /\ result[p] = "badRequest"
        /\ currentModel.IsRunning

\* C18: an activate(m) entered, with nothing interleaved, while the record is running
\* with a unit name that contains the safe name of m answers alreadyExists at once:
\* no driver call, no probe, no write of the record.
C18_FastPathOnSafeName ==
    \A p \in Procs :
        ( /\ op[p] = "activate" /\ arg[p] # <<>> /\ solo[p]
          /\ recBefore[p].IsRunning
          /\ Contains(recBefore[p].Name, SafeModelName(arg[p]))
          /\ pc[p] \notin {"a_rlock", "a_check"} )
        => /\ pc[p] \in {"a_fastresp", "done"}
           /\ pc[p] = "done" => result[p] = "alreadyExists"
           /\ calls[p] = <<>>
           /\ currentModel = recBefore[p]

FoundExisting(p) ==
    /\ op[p] = "activate"
    /\ calls[p] # <<>>
    /\ calls[p][1] = [call |-> "unitExists", ok |-> TRUE]

\* C19: when a unit of the derived name exists, a failed startExisting or a failed
\* short probe is no error by itself: the activation goes on with stop-current,
\* build and run; the provisional record is published only after startExisting
\* succeeded, and alreadyExists is answered only after the short probe succeeded.
C19_ExistingUnitFallsThrough ==
    \A p \in Procs :
        FoundExisting(p) =>
            /\ \/ IsPrefix(CallNames(p), <<"unitExists", "startExisting", "build", "run",
                                          "publish", "probe300">>)
               \/ IsPrefix(CallNames(p), <<"unitExists", "startExisting", "publish",
                                          "probe30", "build", "run", "publish", "probe300">>)
            /\ Len(calls[p]) >= 3 => (calls[p][3].call = "publish" <=> calls[p][2].ok)
            /\ result[p] = "alreadyExists" =>
                  calls[p][Len(calls[p])] = [call |-> "probe30", ok |-> TRUE]
            /\ ( /\ calls[p][Len(calls[p])].call \in {"startExisting", "probe30"}
                 /\ ~calls[p][Len(calls[p])].ok )
               => /\ result[p] \in {"none", "mkdirError", "writeError"}
                  /\ pc[p] \in {"a_stop", "a_stopw", "a_write", "a_build", "done"}
            /\ (Len(calls[p]) >= 5 /\ calls[p][4].call = "probe30") => ~calls[p][4].ok

\* an activation that rebuilt the unit after its short probe failed
C19_Witness ==
    \E p \in Procs :
        /\ FoundExisting(p) /\ Done(p, "activate") /\ result[p] = "created"
        /\ calls[p][4] = [call |-> "probe30", ok |-> FALSE]

\* C20: stop-current changes nothing but isRunning, which it clears when the record
\* is running with a non-empty name: the unit name and the port stay, a record that
\* is not running stays as it is, and no driver operation is invoked (units and
\* images stay as they are).
C20_StopCurrentOnlyClearsFlag ==
    [][ \A p \in Procs :
          (pc[p] = "a_stopw" /\ pc'[p] # "a_stopw") =>
             /\ currentModel' =
                   IF currentModel.IsRunning /\ currentModel.Name # <<>>
                   THEN [Name |-> currentModel.Name, Port |-> currentModel.Port,
                         IsRunning |-> FALSE]
                   ELSE currentModel
             /\ units' = units /\ images' = images
             /\ calls' = calls ]_vars

\* stop-current has cleared the flag of a running record whose unit is still up
C20_Witness ==
    \E p \in Procs :
        /\ pc[p] = "a_write" /\ solo[p]
        /\ recBefore[p].IsRunning
        /\ currentModel = [recBefore[p] EXCEPT !.IsRunning = FALSE]
        /\ UnitUp(currentModel.Name)

\* the handler of p made call c and it failed
Failed(p, c) == \E i \in 1..Len(calls[p]) : calls[p][i] = [call |-> c, ok |-> FALSE]

\* C21: an activate whose build failed has answered with a build error and never
\* called run; one whose run failed has answered with a run error; in both cases
\* the failed call is the last thing the activate did (no publish and no probe after
\* it), and with nothing interleaved the record is not running afterwards.
C21_BuildOrRunFailureAborts ==
    \A p \in Procs :
        op[p] = "activate" =>
            /\ Failed(p, "build") =>
                  /\ pc[p] = "done" /\ result[p] = "buildError"
                  /\ calls[p][Len(calls[p])] = [call |-> "build", ok |-> FALSE]
                  /\ ~Called(p, "run") /\ ~Called(p, "probe300")
            /\ Failed(p, "run") =>
                  /\ pc[p] = "done" /\ result[p] = "runError"
                  /\ calls[p][Len(calls[p])] = [call |-> "run", ok |-> FALSE]
                  /\ ~Called(p, "probe300")
            /\ result[p] = "buildError" => Failed(p, "build")
            /\ result[p] = "runError" => Failed(p, "run")
            /\ (Failed(p, "build") \/ Failed(p, "run")) /\ solo[p] =>
                  /\ ~currentModel.IsRunning
                  /\ currentModel = StoppedModel(currentModel)

\* a run error after the provisional publish of an existing unit: the record that
\* publish had set to running is not running when the activate returns
C21_Witness ==
    \E p \in Procs :
        /\ Done(p, "activate") /\ result[p] = "runError" /\ solo[p]
        /\ Called(p, "publish")
        /\ ~currentModel.IsRunning

\* the activate of p has made the publish of step 6
PublishedNew(p) ==
    /\ op[p] = "activate"
    /\ pc[p] \in {"a_probe300", "done"}
    /\ Called(p, "run")
    /\ calls[p][Len(calls[p])].call \in {"publish", "probe300"}

\* C22: activates of different models can both reach the publish step; a publish
\* replaces the whole record by the publisher's name, the fixed port and running,
\* the record changes only in a step of the task that holds the exclusive lock, and
\* its name and port are always set together; so once two concurrent activates have
\* both published, the record is the one the later publish wrote.
C22_LastPublishWins ==
    /\ [] ( \A p \in Procs : \A q \in Procs \ {p} :
                (PublishedNew(p) /\ PublishedNew(q)) =>
                   currentModel \in { Published(ContainerName(arg[p])),
                                      Published(ContainerName(arg[q])) } )
    /\ [][ /\ \A p \in Procs :
                (pc[p] \in {"a_pub", "a_ppub"} /\ pc'[p] # pc[p]) =>
                   currentModel' = [Name |-> ContainerName(arg[p]), Port |-> "11434",
                                    IsRunning |-> TRUE]
           /\ currentModel' # currentModel => \E p \in wlock : pc'[p] # pc[p]
           /\ (currentModel'.Name = <<>>) <=> (currentModel'.Port = "") ]_vars

\* two activates of different models have both published; the one that was
\* accepted first published last
C22_Witness ==
    /\ PublishedNew("t1") /\ PublishedNew("t2")
    /\ pc["t1"] = "a_probe300" /\ pc["t2"] = "a_probe300"
    /\ ContainerName(arg["t1"]) # ContainerName(arg["t2"])
    /\ currentModel = Published(ContainerName(arg["t1"]))

\* C23: a publish (step 6, or the provisional one of step 2) leaves the record
\* running with the unit's name and the lock free before the readiness probe of
\* that unit has returned, and a chat or stream whose test reads a running record
\* goes on to the inference call with the name it read, whatever the activate is
\* doing; so a chat can be relayed to a unit that has passed no probe yet.
C23_PublishedBeforeProbed ==
    [][ /\ \A q \in Procs :
              (pc[q] \in {"a_pub", "a_ppub"} /\ pc'[q] # pc[q]) =>
                 /\ pc'[q] = IF pc[q] = "a_pub" THEN "a_probe300" ELSE "a_probe30"
                 /\ currentModel'.IsRunning
                 /\ currentModel'.Name = ContainerName(arg[q])
                 /\ wlock' = {}
                 /\ calls'[q][Len(calls'[q])].call = "publish"
        /\ \A p \in Procs :
              ( /\ pc[p] \in {"c_check", "s_check"} /\ pc'[p] # pc[p]
                /\ currentModel.IsRunning ) =>
                 /\ pc'[p] = IF pc[p] = "c_check" THEN "c_infer" ELSE "s_infer"
                 /\ local'[p] = currentModel.Name
                 /\ p \notin rlock' ]_vars

\* a chat has been relayed to the unit an activate has just run and published,
\* while the long probe of that activate has not returned and no probe has passed
C23_Witness ==
    \E p \in Procs : \E q \in Procs \ {p} :
        /\ op[q] = "activate" /\ pc[q] = "a_probe300"
        /\ calls[q][Len(calls[q])].call = "publish"
        /\ Called(q, "run")
        /\ \A i \in 1..Len(calls[q]) :
              calls[q][i].call \in {"probe30", "probe300"} => ~calls[q][i].ok
        /\ Done(p, "chat") /\ Called(p, "infer")
        /\ local[p] = ContainerName(arg[q])
        /\ seen[p] = Published(ContainerName(arg[q]))
        /\ ~recBefore[p].IsRunning

\* C25: when activate(m) returns a success result (alreadyExists on either path, or
\* newly created), the record is running and its unit name is
\* ollama-<safe(m)>-container, also with other requests running concurrently.
C25_SuccessMeansActive ==
    \A p \in Procs :
        (Done(p, "activate") /\ result[p] \in SuccessOfActivate)
        => currentModel = Published(ContainerName(arg[p]))

\* C26: whenever an activate(m) is about to build, the build definition in the
\* shared build directory is the one generated for m, also when activates of
\* different models run concurrently.
C26_BuildsOwnDefinition ==
    \A p \in Procs :
        (op[p] = "activate" /\ pc[p] = "a_build")
        => dockerfile = {GenerateDockerfile(arg[p])}

\* C27: whenever the record is running, a unit of the record's name exists in the
\* runtime.
C27_RunningRecordHasUnit ==
    currentModel.IsRunning => UnitListed(currentModel.Name)

\* C28: activate(m) answers alreadyExists through the fast path only when the
\* record its test read is running with the unit name ollama-<safe(m)>-container.
C28_FastPathOnlyOwnUnit ==
    \A p \in Procs :
        ( /\ op[p] = "activate"
          /\ \/ pc[p] = "a_fastresp"
             \/ pc[p] = "done" /\ result[p] = "alreadyExists" /\ calls[p] = <<>> )
        => /\ seen[p].IsRunning
           /\ seen[p].Name = ContainerName(arg[p])

\* C29, the record kept: after an activate that failed with a build error or a run
\* error, nothing interleaved, the record equals the record before the call.
C29_FailedActivateKeepsRecord ==
    \A p \in Procs :
        (Done(p, "activate") /\ result[p] \in {"buildError", "runError"} /\ solo[p])
        => currentModel = recBefore[p]

\* C29: after an activate that failed with a build error or a run error, nothing
\* interleaved, the record is not running: it has the name and the port of the
\* record before the call, or those of the unit of m when the activate had started
\* it and published it provisionally, and isRunning is cleared.
C29_FailedActivateClearsRunning ==
    \A p \in Procs :
        (Done(p, "activate") /\ result[p] \in {"buildError", "runError"} /\ solo[p])
        => LET base == IF Called(p, "publish")
                       THEN [Name |-> ContainerName(arg[p]), Port |-> "11434",
                             IsRunning |-> TRUE]
                       ELSE recBefore[p]
           IN currentModel = [Name |-> base.Name, Port |-> base.Port,
                              IsRunning |-> FALSE]

\* a build error has left the model that was active before no longer running
C29_Witness ==
    \E p \in Procs :
        /\ Done(p, "activate") /\ result[p] = "buildError" /\ solo[p]
        /\ recBefore[p].IsRunning
        /\ ~Called(p, "publish")
        /\ currentModel.Name = recBefore[p].Name
        /\ ~currentModel.IsRunning

\* C32: a delete whose unit removal failed has answered with an error, has not
\* tried to remove the image and has not written the record; a delete whose unit
\* removal succeeded goes on to the image removal and answers with success whatever
\* that removal returned.
C32_DeleteFailsOnlyOnUnit ==
    \A p \in Procs :
        op[p] = "delete" =>
            /\ Failed(p, "removeUnit") =>
                  /\ pc[p] = "done" /\ result[p] = "deleteError"
                  /\ calls[p] = <<[call |-> "removeUnit", ok |-> FALSE]>>
                  /\ solo[p] => currentModel = recBefore[p]
            /\ result[p] = "deleteError" => Failed(p, "removeUnit")
            /\ (calls[p] # <<>> /\ calls[p][1].ok) =>
                  /\ CallNames(p) \in { <<"removeUnit">>, <<"removeUnit", "removeImage">> }
                  /\ result[p] \in {"none", "deleted"}
                  /\ pc[p] = "done" => result[p] = "deleted" /\ Len(calls[p]) = 2

\* a delete that succeeded although the image could not be removed
C32_Witness ==
    \E p \in Procs :
        /\ Done(p, "delete") /\ result[p] = "deleted"
        /\ calls[p] = <<[call |-> "removeUnit", ok |-> TRUE],
                        [call |-> "removeImage", ok |-> FALSE]>>

\* the operations that relay or report and do not manage the record
RelayOps == {"chat", "stream", "health"}

\* C34: no step of a chat, stream or health request changes the record, so a
\* request that ran alone ends with the record it began with, on success and on
\* every error path; from the capture on, through the inference call and to the
\* response, a chat or stream uses the unit name it read under the shared lock,
\* whatever the record has become, and it calls only if that record was running.
C34_RelayKeepsRecordAndName ==
    /\ [](\A p \in Procs :
            /\ (op[p] \in RelayOps /\ solo[p] /\ pc[p] = "done")
                    => currentModel = recBefore[p]
            /\ (op[p] \in {"chat", "stream"}
                    /\ (pc[p] \in {"c_infer", "s_infer"} \/ Called(p, "infer")))
                    => /\ seen[p].IsRunning
                       /\ local[p] = seen[p].Name
            /\ (op[p] \in RelayOps /\ pc[p] = "done")
                    => result[p] \in {"badRequest", "noModel", "response", "inferError",
                                      "streamed", "streamError", "healthy"}
            /\ (op[p] \in RelayOps /\ result[p] = "noModel")
                    => ~seen[p].IsRunning /\ calls[p] = <<>>)
    /\ [][\A p \in Procs :
            (op[p] \in RelayOps /\ pc'[p] # pc[p]) => currentModel' = currentModel]_vars

C34_Witness ==
    \E p \in Procs :
        /\ Done(p, "chat") /\ Called(p, "infer")
        /\ currentModel # seen[p]
        /\ local[p] = seen[p].Name
        /\ local[p] # currentModel.Name

\* C36: the record at process start is the empty record, not running; and in every
\* state reached by activates, stop-currents, deletes and resyncs, in any
\* interleaving, a record that is running has a non-empty unit name and port 11434.
C36_RunningRecordIsWhole ==
    /\ started = 0 => (currentModel = EmptyModel /\ ~currentModel.IsRunning)
    /\ currentModel.IsRunning =>
          /\ currentModel.Name # <<>>
          /\ currentModel.Port = "11434"

C36_Witness ==
    \E p \in Procs :
        /\ Done(p, "activate") /\ result[p] = "created"
        /\ recBefore[p].IsRunning
        /\ currentModel.IsRunning
        /\ currentModel.Name # recBefore[p].Name

\* the number of times the handler of p made call c
Count(p, c) == Cardinality({i \in 1..Len(calls[p]) : calls[p][i].call = c})

\* C37: no driver or inference call is made twice by one request: an activate calls
\* unitExists, startExisting, build and run at most once each, a delete removes the
\* unit (and the image) at most once, a chat or stream sends at most one inference
\* request; a failed build, run, unit removal or inference is the last call of its
\* request and is answered with its error, and a failed start of an existing unit
\* falls through to the build path without a second start.  (The repetition inside
\* one readiness probe is the subject of SpecProbe.)
C37_NoCallRepeated ==
    \A p \in Procs :
        /\ \A c \in {"unitExists", "startExisting", "build", "run",
                      "removeUnit", "removeImage", "infer"} : Count(p, c) <= 1
        /\ \A c \in {"build", "run", "removeUnit", "infer"} :
               Failed(p, c) =>
                   /\ calls[p][Len(calls[p])] = [call |-> c, ok |-> FALSE]
                   /\ pc[p] = "done"
                   /\ result[p] \in {"buildError", "runError", "deleteError",
                                     "inferError", "streamError"}
        /\ Failed(p, "startExisting") =>
               /\ calls[p][2] = [call |-> "startExisting", ok |-> FALSE]
               /\ pc[p] # "a_start"
               /\ result[p] # "alreadyExists"

C37_Witness ==
    \E p \in Procs :
        /\ Done(p, "activate")
        /\ Failed(p, "startExisting")
        /\ Failed(p, "run")
        /\ result[p] = "runError"

----------------------------------------------------------------------------
(* Properties of SpecWarm *)

\* positions from which the next step of a handler reads the record
ReaderPositions == {"a_check", "a_fastresp", "c_check", "s_check", "h_read"}

\* the resync of q has reset the record and has not yet republished the running
\* unit of its listing
TransientEmpty(q) ==
    /\ op[q] = "resync" /\ pc[q] = "r_scan"
    /\ RunningIn(local[q]) # {}
    /\ currentModel = EmptyModel

\* C33: while a resync whose listing holds a running unit has the record reset and
\* not yet republished, no chat, stream, health or activate fast path is at a read
\* of the record: a reader sees the record before the resync or the one it publishes.
C33_NoReaderSeesTransientEmpty ==
    \A q \in Procs :
        TransientEmpty(q) => \A p \in Procs \ {q} : pc[p] \notin ReaderPositions

----------------------------------------------------------------------------
(* Properties of SpecLive *)

\* positions at which a handler waits in models.ModelMutex.Lock()
LockRequests == {"a_plock", "a_stop", "a_lock", "d_lock", "r_lock"}

\* C24: an activate, stop-current, delete or resync that requests the exclusive
\* lock acquires it, also while a chat or stream inference call is in flight and
\* never returns: the relay has released the shared lock before the call.
C24_WriterNotStarved ==
    \A p \in Procs : (pc[p] \in LockRequests) ~> (p \in wlock)

\* stop-current holds the exclusive lock it requested while a chat was waiting
\* for its inference call, which is still in flight
C24_Witness ==
    \E p \in Procs : \E q \in Procs \ {p} :
        /\ pc[q] \in {"c_infer", "s_infer"}
        /\ local[q] = ContainerName(arg[p])
        /\ pc[p] = "a_stopw" /\ p \in wlock

----------------------------------------------------------------------------
(* Properties of SpecProbe *)

ProbeTimedOut == pPc = "done" /\ pResult = "timeout"

\* C8: the probe returns success at its first poll answered 200 and
\* polls no more; otherwise it ends, with the timeout error, once the deadline has
\* passed, after at least one poll and at most one poll per interval of the timeout;
\* it polls once per interval of the timeout (6 polls for a deadline of 6 intervals)
\* when no attempt and no sleep took longer than its nominal time.
C8_ProbeOutcome ==
    /\ pOkPolls >= 1 => pPc = "done" /\ pResult = "ready" /\ pOkPolls = 1
    /\ pResult = "ready" => pOkPolls = 1
    /\ pPc # "done" => ENABLED NextProbe
    /\ pPolls >= 1 => (pPolls - 1) * PollInterval < pTimeout
    /\ ProbeTimedOut =>
          /\ pOkPolls = 0
          /\ pNow >= pDeadline
          /\ pPolls >= 1
          /\ ~pSlow => pPolls * PollInterval >= pTimeout

C8_Witness ==
    /\ ProbeTimedOut
    /\ pTimeout = TestIntervals * PollInterval
    /\ ~pSlow
    /\ pPolls = TestIntervals

\* C8, the poll count whatever the attempts take: with a deadline of 6 poll intervals
\* and an endpoint that never succeeds, the timeout error comes only after at least
\* 6 polls.
C8_SixPollsBeforeTimeout ==
    (ProbeTimedOut /\ pTimeout = TestIntervals * PollInterval) => pPolls >= TestIntervals

\* C9: in the probes activate issues, one attempt's timeout is shorter than the
\* overall timeout, and a call in which an attempt hung has returned no later than
\* one poll interval after the deadline.
C9_HungAttemptBounded ==
    (pPc = "done" /\ pTimeout \in ActivateTimeouts /\ pHung)
    => /\ PerAttemptTimeout < pTimeout
       /\ pNow <= pDeadline + PollInterval

----------------------------------------------------------------------------
(* Properties of SpecStream *)

\* the data events a caller should see for the values sent on the chunk channel
RECURSIVE DataEvents(_)
DataEvents(values) ==
    IF values = <<>> THEN <<>>
    ELSE IF Head(values) = <<>> THEN DataEvents(Tail(values))
    ELSE <<[event |-> "data", data |-> Head(values)]>> \o DataEvents(Tail(values))

ErrorEvents == { i \in 1..Len(events) : events[i].event = "error" }

BothClosed == responseClosed /\ errorClosed

\* C4: when the upstream stream completed without error and the response has
\* ended, the caller has received one data event for every non-empty fragment,
\* in the order produced, followed by the final full-text data event.
C4_RelayDeliversAll ==
    (hPc = "returned" /\ errSent = 0) => events = DataEvents(sent)

\* C5: when the producer surfaced an error and the response has ended, the
\* caller has received exactly one error event.
C5_OneErrorEvent ==
    (hPc = "returned" /\ errSent > 0) => Cardinality(ErrorEvents) = 1

\* C6: a stream call never sends both a final full-text value and an error, and
\* once both channels are closed it has sent exactly one of them: either one
\* final full-text value and no error, or one error and no final value.
C6_FinalXorError ==
    /\ finalSent + errSent <= 1
    /\ BothClosed =>
         \/ finalSent = 1 /\ errSent = 0
         \/ errSent = 1 /\ finalSent = 0

\* a decode failure after a forwarded fragment, both channels closed
C6_Witness ==
    /\ BothClosed
    /\ errSent = 1 /\ finalSent = 0
    /\ sent # <<>>
    /\ sPc = "returned"

\* the objects the decode loop handles: up to and including the first one with
\* done = true, or up to the first one the decoder rejects
RECURSIVE UpToDone(_)
UpToDone(objects) ==
    IF objects = <<>> \/ Head(objects).bad THEN <<>>
    ELSE IF Head(objects).done THEN <<Head(objects)>>
    ELSE <<Head(objects)>> \o UpToDone(Tail(objects))

\* their non-empty response fields, in order
RECURSIVE NonEmptyResponses(_)
NonEmptyResponses(objects) ==
    IF objects = <<>> THEN <<>>
    ELSE IF Head(objects).response = <<>> THEN NonEmptyResponses(Tail(objects))
    ELSE <<Head(objects).response>> \o NonEmptyResponses(Tail(objects))

RECURSIVE Concatenation(_)
Concatenation(values) ==
    IF values = <<>> THEN <<>> ELSE Head(values) \o Concatenation(Tail(values))

ProducerEnded == sPc \in {"closeError", "closeResponse", "returned"}

\* C30: the values sent on the chunk channel are, in order, the non-empty response
\* fields of the decoded objects up to and including the first one with done = true;
\* a producer that ended without an error has sent all of them and then one value
\* equal to their concatenation, and nothing after it; one that ended with a decode
\* error has sent them and no final value; nothing of an object after the first
\* done = true is sent.
C30_ChunksThenFullText ==
    LET want == NonEmptyResponses(UpToDone(body))
        chunks == IF finalSent >= 1 THEN SubSeq(sent, 1, Len(sent) - 1) ELSE sent
    IN /\ IsPrefix(chunks, want)
       /\ finalSent <= 1
       /\ finalSent = 1 => /\ chunks = want
                           /\ sent[Len(sent)] = Concatenation(want)
                           /\ errSent = 0
                           /\ ProducerEnded
       /\ (ProducerEnded /\ errSent = 0) => finalSent = 1
       /\ (ProducerEnded /\ errSent > 0) =>
             /\ finalSent = 0
             /\ sent = IF upstream = body THEN <<>> ELSE want

\* a body with a fragment after the completion marker: the fragment of the marked
\* object and the full text were sent, the later fragment was not
C30_Witness ==
    /\ sPc = "returned"
    /\ finalSent = 1
    /\ Len(body) = 2 /\ body[1].done /\ body[2].response # <<>>
    /\ sent = <<body[1].response, body[1].response>>
    /\ upstream = <<body[2]>>

\* C31: the final full-text value is sent only after an object with done = true
\* has been decoded; when the body ends without one, no final value is sent.
C31_FinalOnlyAfterDone ==
    finalSent >= 1 =>
        \E i \in 1..Len(UpToDone(body)) : UpToDone(body)[i].done

----------------------------------------------------------------------------
(* Properties of SpecStreamLive *)

\* C35: with a finite upstream body the producer goroutine returns and the handler
\* returns, both channels closed; each channel is closed by one step, from open, and
\* nothing is sent on a closed channel; the handler stops reading only once the
\* producer is past its last send, so the producer is never left waiting for room
\* on the chunk channel (capacity 10) or the error channel (capacity 1).
C35_StreamEnds ==
    /\ <>[](sPc = "returned" /\ hPc = "returned" /\ BothClosed)
    /\ [](hPc = "returned" => ProducerEnded)
    /\ [][/\ errorClosed' # errorClosed => (~errorClosed /\ sPc = "closeError")
          /\ responseClosed' # responseClosed => (~responseClosed /\ sPc = "closeResponse")
          /\ (sPc = "closeError" /\ sPc' # sPc) => (~errorClosed /\ errorClosed')
          /\ (sPc = "closeResponse" /\ sPc' # sPc) => (~responseClosed /\ responseClosed')
          /\ Len(responseChan') > Len(responseChan) => ~responseClosed
          /\ Len(errorChan') > Len(errorChan) => ~errorClosed]_vars

\* a body of more fragments than the chunk channel holds: the producer had to wait
\* for room, and both tasks have returned
C35_Witness ==
    /\ sPc = "returned" /\ hPc = "returned" /\ BothClosed
    /\ Len(sent) > ResponseChanCap + 1
    /\ finalSent = 1

----------------------------------------------------------------------------
(* Properties of SpecNames *)

\* the safe name as specified: lower-case, every ':' and every '/' replaced by '-'
SafeAsSpecified(m) ==
    [i \in 1..Len(m) |-> IF m[i] \in {":", "/"} THEN "-" ELSE LowerChar(m[i])]

\* C13: the unit and the image activate(m) creates are ollama-<f(m)>-container and
\* ollama-<f(m)>, f lower-casing m and replacing every ':' and '/' by '-'
\* (f("Llama2:13B") = "llama2-13b", f("Code/Llama") = "code-llama"); the driver's
\* delete removes exactly that unit and that image, and the delete handler compares
\* the record with exactly that unit name.
C13_OneSafeName ==
    /\ SafeModelName(Llama2Tagged) = <<"l", "l", "a", "m", "a", "2", "-", "1", "3", "b">>
    /\ SafeModelName(CodeLlama) = <<"c", "o", "d", "e", "-", "l", "l", "a", "m", "a">>
    /\ "activate" \in nDone =>
          /\ nImage = OllamaPrefix \o SafeAsSpecified(nRaw)
          /\ nUnit = OllamaPrefix \o SafeAsSpecified(nRaw) \o ContainerSuffix
    /\ "driverDelete" \in nDone => nDelUnit = nUnit /\ nDelImage = nImage
    /\ "handlerDelete" \in nDone => nDelCurrent = nUnit

\* all sites have derived their names from Code/Llama
C13_Witness ==
    /\ nRaw = CodeLlama
    /\ nDone = {"activate", "driverDelete", "handlerDelete", "infer"}
    /\ nDelUnit = OllamaPrefix \o <<"c", "o", "d", "e", "-", "l", "l", "a", "m", "a">>
                     \o ContainerSuffix

\* C14: the model name the inference client derives from the unit name activate(m)
\* created equals the model name the unit's build definition pulls for m.
C14_InferNamesHostedModel ==
    ("activate" \in nDone /\ "infer" \in nDone) => nModel = nPull

----------------------------------------------------------------------------
(* Properties of SpecList *)

HasPrefix(t, prefix) == Len(t) >= Len(prefix) /\ SubSeq(t, 1, Len(prefix)) = prefix
HasSuffix(t, suffix) ==
    Len(t) >= Len(suffix) /\ SubSeq(t, Len(t) - Len(suffix) + 1, Len(t)) = suffix

\* the name is ollama-<something>-container
MatchesConvention(name) ==
    /\ HasPrefix(name, OllamaPrefix)
    /\ HasSuffix(name, ContainerSuffix)
    /\ Len(name) >= Len(OllamaPrefix) + Len(ContainerSuffix)

\* the descriptors of the units of the convention, in the order listed
ConventionDescriptors(rows) ==
    LET kept == SelectSeq(rows, LAMBDA r : MatchesConvention(r.name))
    IN [i \in 1..Len(kept) |->
          [ Name |-> SubSeq(kept[i].name, Len(OllamaPrefix) + 1,
                            Len(kept[i].name) - Len(ContainerSuffix)),
            ContainerName |-> kept[i].name,
            Status |-> kept[i].status,
            Ports |-> kept[i].ports,
            IsRunning |-> Contains(kept[i].status, <<"U", "p">>) ]]

\* C38: a listing that returned without error holds one descriptor for each unit
\* whose name is of the form ollama-*-container and none for any other unit, its
\* model name the unit name without the leading ollama- and the trailing
\* -container, and running exactly when the status contains "Up".
C38_ListsExactlyConvention ==
    (lPc = "done" /\ ~lErr) => lOut = ConventionDescriptors(lRows)

============================================================================
